---- MODULE Spec2Model ----
(***************************************************************************)
(* Consultation ledger of the HeartCare portal: the doctors store          *)
(* (data/doctors.db: doctors, consultations, chat_messages), the users     *)
(* store (data/users.db: users) and the Streamlit script runs that read    *)
(* and write them (doctor_registry.py, chat_page.py, login_auth.py).       *)
(*                                                                         *)
(* Every sqlite statement is one atomic step.  A Streamlit script run is   *)
(* one thread per browser session, so the SELECT at the top of a chat page *)
(* run and the UPDATE in its button handler are two steps between which    *)
(* the other session's run may take steps.                                 *)
(***************************************************************************)
EXTENDS Integers, Sequences, FiniteSets, TLC

VARIABLES
    doctors,         \* table doctors of data/doctors.db
    users,           \* table users of data/users.db
    consultations,   \* table consultations of data/doctors.db
    chat_messages,   \* table chat_messages of data/doctors.db
    session,         \* per browser session: the running script's position and locals
    ret,             \* the most recent call, with its arguments and what it returned
    booked,          \* history: what each successful book_consultation returned
    status_set,      \* history: per consultation, the status last passed to
                     \* update_consultation_status while the row existed
    predictor,       \* the HeartDiseasePredictor object: what its constructor loaded
    login_sessions,  \* table login_sessions of data/users.db
    otp_storage,     \* data/otp_storage.json: identifier -> stored OTP
    clock,           \* datetime.now(), in minutes since the stores were created
    issued,          \* history: per session token authenticate_user returned, when
                     \* it was issued and whether logout was called on it
    failures,        \* history: per user id, the wrong passwords authenticate_user
                     \* has checked since the user's last successful login
    otp_log,         \* history: per identifier, the last store_otp and the
                     \* verify_otp calls made since
    session_state,   \* per browser, st.session_state: the logged-in user's data
                     \* and the current page
    seeding          \* per browser, the position of the DoctorRegistry
                     \* construction its script run is in, and the count it read

\* the state outside the consultation ledger
otherStores ==
    <<predictor, login_sessions, otp_storage, clock, issued, failures, otp_log,
      session_state, seeding>>

vars == <<doctors, users, consultations, chat_messages, session, ret, booked, status_set,
          predictor, login_sessions, otp_storage, clock, issued, failures, otp_log,
          session_state, seeding>>

-----------------------------------------------------------------------------
(* Bounds of the model *)

MaxConsultations == 2
MaxMessages == 2
MaxDoctors == 6
MaxSessions == 2
MaxTicks == 3
MaxCalls == 5

\* the consultation ids calls are made on: every id a row can have
ConsultationIdInputs == 1..MaxConsultations

-----------------------------------------------------------------------------
(* Values *)

\* SQL NULL / Python None in a text column or a dict value
NULL == "NULL"

\* Python None or SQL NULL where a number or an array may stand: <<>>, and
\* <<v>> for the value v
None == <<>>

Some(v) == <<v>>

\* a NULL video_call_link column (None in Python, falsy)
NoLink == <<>>

LinkPrefix == "https://meet.jit.si/heartcare-"

\* the values secrets.token_urlsafe(8) may return
Tokens == {"tokA", "tokB"}

DefaultDuration == 15

DefaultStatus == "pending"

PlaceholderName == "Unknown Patient"

PlaceholderEmail == "unknown@email.com"

\* the browsers the application is open in
Browsers == {"b1", "b2"}

\* st.session_state of a browser nobody has logged in from: no
\* user_authenticated, no user_data, current_page "home"
NewBrowser == [user_authenticated |-> FALSE, user_data |-> None, current_page |-> "home"]

\* no DoctorRegistry() is being constructed in the browser's script run
NotConstructing == [pc |-> "idle", count |-> 0]

\* the browser sessions of one consultation's two parties
Sessions == {"doctor", "patient"}

\* the consultation types and statuses of the data model
ConsultationTypes ==
    {"Video Consultation", "Chat Consultation", "In-Person", "Emergency Consultation"}

Statuses == {"pending", "confirmed", "completed", "cancelled"}

TerminalStatuses == {"completed", "cancelled"}

\* ISO dates and times as (y, m, d) and (h, m, s): the stored strings
\* 'YYYY-MM-DD' and 'HH:MM:SS' compare as these triples do
Less3(a, b) ==
    \/ a[1] < b[1]
    \/ a[1] = b[1] /\ a[2] < b[2]
    \/ a[1] = b[1] /\ a[2] = b[2] /\ a[3] < b[3]

-----------------------------------------------------------------------------
(* The seed rows of the doctors table (add_fake_doctors) *)

\* user_id is not among the inserted columns: 0 stands for its NULL
SeedDoctor(n, sp, yrs, city, ph, em, fee) ==
    [name |-> n, specialization |-> sp, years_experience |-> yrs, city |-> city,
     phone |-> ph, email |-> em, consultation_fee |-> fee, user_id |-> 0,
     is_available |-> TRUE]

fake_doctors ==
    << SeedDoctor("Dr. Rajesh Kumar", "Cardiologist", 15, "Mumbai",
                  "+91 98765 43210", "dr.rajesh@apollo.com", 1500),
       SeedDoctor("Dr. Priya Sharma", "Cardiovascular Surgeon", 12, "Delhi",
                  "+91 98765 43211", "dr.priya@fortis.com", 2000),
       SeedDoctor("Dr. Amit Patel", "Interventional Cardiologist", 10, "Gurgaon",
                  "+91 98765 43212", "dr.amit@medanta.com", 1800),
       SeedDoctor("Dr. Meera Reddy", "Heart Failure Specialist", 8, "Bangalore",
                  "+91 98765 43213", "dr.meera@narayana.com", 1200),
       SeedDoctor("Dr. Sanjay Verma", "Preventive Cardiologist", 20, "Pune",
                  "+91 98765 43214", "dr.sanjay@max.com", 1000) >>

\* the five INSERTs of the seed rows and their commit; ids are AUTOINCREMENT
InsertFakeDoctors(tbl) ==
    tbl \o [i \in 1..Len(fake_doctors) |-> [id |-> Len(tbl) + i] @@ fake_doctors[i]]

\* INSERT of the seed rows when the table is empty
add_fake_doctors(tbl) ==
    IF Len(tbl) = 0
    THEN InsertFakeDoctors(tbl)
    ELSE tbl

DoctorIds(tbl) == {tbl[i].id : i \in 1..Len(tbl)}

DoctorById(tbl, d) == CHOOSE r \in {tbl[i] : i \in 1..Len(tbl)} : r.id = d

\* name, specialization, years_experience, location, city, state, country,
\* phone, email and consultation_fee are NOT NULL; an empty string is a value
DoctorInsertAccepted(data) ==
    /\ data.name # NULL
    /\ data.specialization # NULL
    /\ data.phone # NULL
    /\ data.email # NULL

\* the row the INSERT of register_doctor creates: AUTOINCREMENT id,
\* is_available DEFAULT TRUE
NewDoctor(tbl, user_id, data) ==
    [id |-> Len(tbl) + 1, name |-> data.name, specialization |-> data.specialization,
     years_experience |-> data.years_experience, city |-> data.city,
     phone |-> data.phone, email |-> data.email,
     consultation_fee |-> data.consultation_fee, user_id |-> user_id,
     is_available |-> TRUE]

\* a violated constraint raises, and the exception is returned as
\* {'success': False, ...}
register_doctor(user_id, data) ==
    /\ Len(doctors) < MaxDoctors
    /\ IF DoctorInsertAccepted(data)
       THEN /\ doctors' = Append(doctors, NewDoctor(doctors, user_id, data))
            /\ ret' = [op |-> "register_doctor", user_id |-> user_id, data |-> data,
                       success |-> TRUE, doctor_id |-> Len(doctors) + 1]
       ELSE /\ doctors' = doctors
            /\ ret' = [op |-> "register_doctor", user_id |-> user_id, data |-> data,
                       success |-> FALSE]
    /\ UNCHANGED <<users, consultations, chat_messages, session, booked, status_set>>
    /\ UNCHANGED otherStores

\* truth value of a text_input value in an if
NonEmpty(text) == text # ""

\* the registration form submitted by a logged-in user: "if name and
\* specialization and phone and email", then register_doctor
render_doctor_registration(user_id, data) ==
    /\ Len(doctors) < MaxDoctors
    /\ IF /\ NonEmpty(data.name) /\ NonEmpty(data.specialization)
          /\ NonEmpty(data.phone) /\ NonEmpty(data.email)
       THEN /\ doctors' = Append(doctors, NewDoctor(doctors, user_id, data))
            /\ ret' = [op |-> "render_doctor_registration", user_id |-> user_id,
                       data |-> data, success |-> TRUE, doctor_id |-> Len(doctors) + 1]
       ELSE /\ doctors' = doctors
            /\ ret' = [op |-> "render_doctor_registration", user_id |-> user_id,
                       data |-> data, success |-> FALSE]
    /\ UNCHANGED <<users, consultations, chat_messages, session, booked, status_set>>
    /\ UNCHANGED otherStores

\* table doctor_reviews of data/doctors.db: created by init_doctor_database,
\* and no statement of the application inserts into it
doctor_reviews == <<>>

\* the tables init_doctor_database creates in data/doctors.db; users is a
\* table of data/users.db
DoctorsDbTables == {"doctors", "doctor_reviews", "consultations", "chat_messages"}

ReviewsOf(d) == {i \in 1..Len(doctor_reviews) : doctor_reviews[i].doctor_id = d}

\* a filter is an optional value: <<>> when the key is absent from the dict,
\* <<v>> when it is present with value v
NoFilter == <<>>

\* "if filters.get(key)": the key is present and its value is truthy (not ''
\* and not 0)
FilterApplied(filter, falsy) == filter # NoFilter /\ filter[1] # falsy

\* the WHERE clause get_doctors builds
MatchesFilters(d, filters) ==
    /\ d.is_available
    /\ FilterApplied(filters.specialization, "")
          => d.specialization = filters.specialization[1]
    /\ FilterApplied(filters.city, "") => d.city = filters.city[1]
    /\ FilterApplied(filters.min_experience, 0)
          => d.years_experience >= filters.min_experience[1]
    /\ FilterApplied(filters.max_fee, 0)
          => d.consultation_fee <= filters.max_fee[1]

\* LEFT JOIN doctor_reviews ... GROUP BY d.id: one row per doctor, with
\* COUNT(r.id); AVG(r.rating) is NULL for a doctor without reviews
DoctorResultRows(tbl, filters) ==
    {tbl[i] @@ [review_count |-> Cardinality(ReviewsOf(tbl[i].id))] :
        i \in {k \in 1..Len(tbl) : MatchesFilters(tbl[k], filters)}}

\* ORDER BY avg_rating DESC, d.years_experience DESC with every avg_rating
\* NULL: the orders in which sqlite may return the rows
RECURSIVE ExperienceOrderings(_)
ExperienceOrderings(rows) ==
    IF rows = {} THEN {<<>>}
    ELSE UNION {{<<r>> \o rest : rest \in ExperienceOrderings(rows \ {r})} :
                  r \in {m \in rows :
                           \A o \in rows : o.years_experience <= m.years_experience}}

get_doctors(filters) ==
    /\ \E rows \in ExperienceOrderings(DoctorResultRows(doctors, filters)) :
          ret' = [op |-> "get_doctors", filters |-> filters, rows |-> rows]
    /\ UNCHANGED <<doctors, users, consultations, chat_messages, session, booked, status_set>>
    /\ UNCHANGED otherStores

\* the reviews query names table users, which is not a table of
\* data/doctors.db: sqlite raises "no such table", the exception is caught
\* and None returned
ReviewsQueryRuns == "users" \in DoctorsDbTables

get_doctor_details(doctor_id) ==
    /\ ret' = [op |-> "get_doctor_details", doctor_id |-> doctor_id,
               found |-> doctor_id \in DoctorIds(doctors) /\ ReviewsQueryRuns]
    /\ UNCHANGED <<doctors, users, consultations, chat_messages, session, booked, status_set>>
    /\ UNCHANGED otherStores

-----------------------------------------------------------------------------
(* users store *)

UserIds(tbl) == {tbl[i].id : i \in 1..Len(tbl)}

UserById(tbl, u) == CHOOSE r \in {tbl[i] : i \in 1..Len(tbl)} : r.id = u

\* the characters of the texts registrations are made with
Chars(text) ==
    CASE text = "john.smith@email.com" ->
           <<"j", "o", "h", "n", ".", "s", "m", "i", "t", "h", "@", "e", "m",
             "a", "i", "l", ".", "c", "o", "m">>
      [] text = "sarah.johnson@email.com" ->
           <<"s", "a", "r", "a", "h", ".", "j", "o", "h", "n", "s", "o", "n",
             "@", "e", "m", "a", "i", "l", ".", "c", "o", "m">>
      [] text = "john.smith@email" ->
           <<"j", "o", "h", "n", ".", "s", "m", "i", "t", "h", "@", "e", "m",
             "a", "i", "l">>
      [] text = "+91 98765 43201" ->
           <<"+", "9", "1", " ", "9", "8", "7", "6", "5", " ", "4", "3", "2",
             "0", "1">>
      [] text = "+91 98765 43202" ->
           <<"+", "9", "1", " ", "9", "8", "7", "6", "5", " ", "4", "3", "2",
             "0", "2">>
      [] text = "98765" ->
           <<"9", "8", "7", "6", "5">>
      [] text = "Passw0rd" ->
           <<"P", "a", "s", "s", "w", "0", "r", "d">>
      [] text = "password123" ->
           <<"p", "a", "s", "s", "w", "o", "r", "d", "1", "2", "3">>
      [] OTHER -> <<>>

Lower ==
    {"a", "b", "c", "d", "e", "f", "g", "h", "i", "j", "k", "l", "m",
     "n", "o", "p", "q", "r", "s", "t", "u", "v", "w", "x", "y", "z"}

Upper ==
    {"A", "B", "C", "D", "E", "F", "G", "H", "I", "J", "K", "L", "M",
     "N", "O", "P", "Q", "R", "S", "T", "U", "V", "W", "X", "Y", "Z"}

Digits == {"0", "1", "2", "3", "4", "5", "6", "7", "8", "9"}

\* re.match(r'^[a-zA-Z0-9._%+-]+@[a-zA-Z0-9.-]+\.[a-zA-Z]{2,}$', email): an
\* "@" at i and a "." at j split the text into the three classes
validate_email(email) ==
    LET c == Chars(email)
        n == Len(c)
    IN  \E i \in 2..n : \E j \in (i + 2)..(n - 2) :
           /\ c[i] = "@"
           /\ c[j] = "."
           /\ \A k \in 1..(i - 1) :
                 c[k] \in Lower \cup Upper \cup Digits \cup {".", "_", "%", "+", "-"}
           /\ \A k \in (i + 1)..(j - 1) :
                 c[k] \in Lower \cup Upper \cup Digits \cup {".", "-"}
           /\ \A k \in (j + 1)..n : c[k] \in Lower \cup Upper

\* 10 <= len(re.sub(r'\D', '', phone)) <= 15
validate_phone(phone) ==
    LET phone_clean == SelectSeq(Chars(phone), LAMBDA ch : ch \in Digits)
    IN  10 <= Len(phone_clean) /\ Len(phone_clean) <= 15

\* 'is_valid' of validate_password_strength: no error was appended
validate_password_strength(password) ==
    LET c == Chars(password)
    IN  /\ Len(c) >= 8
        /\ \E k \in 1..Len(c) : c[k] \in Upper
        /\ \E k \in 1..Len(c) : c[k] \in Lower
        /\ \E k \in 1..Len(c) : c[k] \in Digits

\* UNIQUE declared on username alone
MutUniqueViolationsUsernameOnly(tbl, username, email, phone) ==
    {col \in {"username"} : \E i \in 1..Len(tbl) : tbl[i].username = username}

\* the UNIQUE columns of users a new row would repeat
UniqueViolations(tbl, username, email, phone) ==
    {col \in {"username", "email", "phone"} :
        \E i \in 1..Len(tbl) :
           \/ col = "username" /\ tbl[i].username = username
           \/ col = "email" /\ tbl[i].email = email
           \/ col = "phone" /\ tbl[i].phone = phone}

\* the message chosen from the column "UNIQUE constraint failed" names
UniqueMessage(col) ==
    CASE col = "username" -> "Username already exists"
      [] col = "email" -> "Email already registered"
      [] col = "phone" -> "Phone number already registered"

\* the values secrets.token_hex(16) may return
Salts == {"9f86d081884c7d65"}

\* hashlib.sha256((password + salt).encode()).hexdigest(): equal digests for
\* equal texts only
hash_password(password, salt) == <<"sha256", password, salt>>

verify_password(password, stored_hash, stored_salt) ==
    hash_password(password, stored_salt) = stored_hash

\* the row INSERT INTO users makes of the supplied columns: login_attempts
\* DEFAULT 0, is_locked DEFAULT FALSE, lock_until NULL
NewUser(tbl, username, email, phone, password, salt, role) ==
    [id |-> Len(tbl) + 1, username |-> username, email |-> email, phone |-> phone,
     password_hash |-> hash_password(password, salt), salt |-> salt, role |-> role,
     login_attempts |-> 0, is_locked |-> FALSE, lock_until |-> None]

\* The three format checks in order, then the INSERT under the three UNIQUE
\* constraints; sqlite names one violated constraint in the IntegrityError
\* (which one, when several are violated, is its choice)
register_user_call(username, email, phone, password, role) ==
    /\ LET call == [op |-> "register_user", username |-> username, email |-> email,
                    phone |-> phone, password |-> password]
           violated == UniqueViolations(users, username, email, phone)
       IN  IF ~validate_email(email)
           THEN /\ users' = users
                /\ ret' = call @@ [success |-> FALSE, message |-> "Invalid email format"]
           ELSE IF ~validate_phone(phone)
           THEN /\ users' = users
                /\ ret' = call @@ [success |-> FALSE,
                                   message |-> "Invalid phone number format"]
           ELSE IF ~validate_password_strength(password)
           THEN /\ users' = users
                /\ ret' = call @@ [success |-> FALSE,
                                   message |-> "Password does not meet requirements"]
           ELSE IF violated # {}
           THEN /\ users' = users
                /\ \E col \in violated :
                      ret' = call @@ [success |-> FALSE, message |-> UniqueMessage(col)]
           ELSE /\ \E salt \in Salts :
                      users' = Append(users, NewUser(users, username, email, phone,
                                                     password, salt, role))
                /\ ret' = call @@ [success |-> TRUE, message |-> "Registration successful",
                                   user_id |-> Len(users) + 1]

\* the call, leaving everything but the users table alone
register_user(username, email, phone, password, role) ==
    /\ register_user_call(username, email, phone, password, role)
    /\ UNCHANGED <<doctors, consultations, chat_messages, session, booked, status_set>>
    /\ UNCHANGED otherStores

-----------------------------------------------------------------------------
(* Login, sessions and one-time passwords (login_auth.py) *)

\* new_attempts >= 5 locks the account
MaxLoginAttempts == 5

\* timedelta(minutes=30) of the lock
LockMinutes == 30

\* timedelta(hours=24) of a session
SessionMinutes == 1440

\* timedelta(minutes=10) of a stored OTP
OtpMinutes == 10

\* attempts >= 3 ends the verification of a stored OTP
MaxOtpAttempts == 3

\* time passes between two calls
Elapse(minutes) ==
    /\ clock + minutes <= MaxTicks * minutes
    /\ clock' = clock + minutes
    /\ ret' = [op |-> "elapse"]
    /\ UNCHANGED <<doctors, users, consultations, chat_messages, session, booked,
                   status_set, predictor, login_sessions, otp_storage, issued,
                   failures, otp_log,
                   session_state, seeding>>

\* a function with one more (or one changed) entry
Put(f, key, value) ==
    [k \in DOMAIN f \cup {key} |-> IF k = key THEN value ELSE f[k]]

Failures(u) == IF u \in DOMAIN failures THEN failures[u] ELSE 0

\* secrets.token_urlsafe(32): a token it has not returned before; tokens are
\* named by the order they are issued in
NewSessionToken == Len(issued) + 1

SessionTokens(tbl) == {tbl[i].session_token : i \in 1..Len(tbl)}

\* INSERT INTO login_sessions under UNIQUE(session_token); the IntegrityError
\* of a repeated token is logged and the table left as it was
create_session(tbl, user_id, session_token, now) ==
    IF session_token \in SessionTokens(tbl)
    THEN tbl
    ELSE Append(tbl, [user_id |-> user_id, session_token |-> session_token,
                      expires_at |-> now + SessionMinutes])

\* UPDATE users SET is_locked = FALSE, login_attempts = 0, lock_until = NULL
Unlocked(user) ==
    [user EXCEPT !.is_locked = FALSE, !.login_attempts = 0, !.lock_until = None]

\* is_locked and lock_until (a NULL lock_until is falsy)
LockSet(user) == user.is_locked /\ user.lock_until # None

\* the lock refuses a call while datetime.now() < lock_time; never
MutLockRunningNever(user, now) == FALSE

\* the lock refuses a call while datetime.now() < lock_time
LockRunning(user, now) == LockSet(user) /\ now < user.lock_until[1]

\* new_attempts = login_attempts: the wrong password is not counted
MutNewAttemptsUncounted(user) == user.login_attempts

\* new_attempts = login_attempts + 1, login_attempts being the column as the
\* SELECT at the top of the call read it
NewAttempts(user) == user.login_attempts + 1

\* The row of the username; the lock, if one is set and has not run out,
\* refuses the call; a lock that has run out is removed; then the password is
\* checked: a wrong one is counted (and locks the account at 5), the right
\* one resets the count and the lock and opens a session.
authenticate_user(username, password) ==
    LET call == [op |-> "authenticate_user", username |-> username,
                 password |-> password, now |-> clock]
        found == {i \in 1..Len(users) : users[i].username = username}
    IN  IF found = {}
        THEN /\ ret' = call @@ [success |-> FALSE,
                                message |-> "Invalid username or password"]
             /\ UNCHANGED <<users, login_sessions, issued, failures>>
        ELSE LET i == CHOOSE k \in found : TRUE
                 user == users[i]
                 new_attempts == NewAttempts(user)
                 opened == IF LockSet(user) THEN Unlocked(user) ELSE user
             IN  IF LockRunning(user, clock)
                 THEN /\ ret' = call @@ [success |-> FALSE, message |-> "Account locked",
                                         remaining_time |-> user.lock_until[1] - clock]
                      /\ UNCHANGED <<users, login_sessions, issued, failures>>
                 ELSE IF ~verify_password(password, user.password_hash, user.salt)
                 THEN /\ users' =
                            [users EXCEPT ![i] =
                                IF new_attempts >= MaxLoginAttempts
                                THEN [opened EXCEPT !.login_attempts = new_attempts,
                                                    !.is_locked = TRUE,
                                                    !.lock_until = Some(clock + LockMinutes)]
                                ELSE [opened EXCEPT !.login_attempts = new_attempts]]
                      /\ ret' =
                            IF new_attempts >= MaxLoginAttempts
                            THEN call @@ [success |-> FALSE,
                                          message |-> "Too many failed attempts"]
                            ELSE call @@ [success |-> FALSE, message |-> "Invalid password",
                                          remaining |-> MaxLoginAttempts - new_attempts]
                      /\ failures' = Put(failures, user.id, Failures(user.id) + 1)
                      /\ UNCHANGED <<login_sessions, issued>>
                 ELSE /\ Len(issued) < MaxSessions
                      /\ users' = [users EXCEPT ![i] = Unlocked(user)]
                      /\ login_sessions' =
                            create_session(login_sessions, user.id, NewSessionToken, clock)
                      /\ issued' = Append(issued, [at |-> clock, user_id |-> user.id,
                                                   logged_out |-> FALSE])
                      /\ failures' = Put(failures, user.id, 0)
                      /\ ret' = call @@ [success |-> TRUE, message |-> "Login successful",
                                         user_id |-> user.id, role |-> user.role,
                                         session_token |-> NewSessionToken]

\* the call, leaving the ledger, the predictor and the OTP file alone
AuthenticateUser(username, password) ==
    /\ authenticate_user(username, password)
    /\ UNCHANGED <<doctors, consultations, chat_messages, session, booked, status_set,
                   predictor, otp_storage, clock, otp_log,
                   session_state, seeding>>

\* SELECT ... FROM login_sessions ls JOIN users u ON ls.user_id = u.id
\* WHERE ls.session_token = ?, then the expiry test
verify_session(session_token) ==
    /\ LET call == [op |-> "verify_session", session_token |-> session_token,
                    now |-> clock]
           found == {i \in 1..Len(login_sessions) :
                        /\ login_sessions[i].session_token = session_token
                        /\ login_sessions[i].user_id \in UserIds(users)}
       IN  IF found = {}
           THEN ret' = call @@ [valid |-> FALSE, message |-> "Invalid session"]
           ELSE LET row == login_sessions[CHOOSE k \in found : TRUE]
                IN  IF clock > row.expires_at
                    THEN ret' = call @@ [valid |-> FALSE, message |-> "Session expired"]
                    ELSE ret' = call @@ [valid |-> TRUE, user_id |-> row.user_id,
                                         role |-> UserById(users, row.user_id).role]
    /\ UNCHANGED <<doctors, users, consultations, chat_messages, session, booked,
                   status_set>>
    /\ UNCHANGED otherStores

\* DELETE FROM login_sessions: every session is removed
MutDeleteAllSessions(tbl, session_token) == <<>>

\* DELETE FROM login_sessions WHERE session_token = ?
DeleteSession(tbl, session_token) ==
    SelectSeq(tbl, LAMBDA row : row.session_token # session_token)

logout(session_token) ==
    /\ login_sessions' = DeleteSession(login_sessions, session_token)
    /\ issued' = [t \in DOMAIN issued |->
                    IF t = session_token THEN [issued[t] EXCEPT !.logged_out = TRUE]
                    ELSE issued[t]]
    /\ ret' = [op |-> "logout", session_token |-> session_token]
    /\ UNCHANGED <<doctors, users, consultations, chat_messages, session, booked,
                   status_set, predictor, otp_storage, clock, failures, otp_log,
                   session_state, seeding>>

\* otp_data[identifier] = {otp, type, created_at, expires_at, attempts: 0},
\* replacing what was stored for the identifier
store_otp(identifier, otp, otp_type) ==
    /\ otp_storage' = Put(otp_storage, identifier,
                          [otp |-> otp, type |-> otp_type, created_at |-> clock,
                           expires_at |-> clock + OtpMinutes, attempts |-> 0])
    /\ otp_log' = Put(otp_log, identifier,
                      [otp |-> otp, stored_at |-> clock, calls |-> 0, verified |-> 0])
    /\ ret' = [op |-> "store_otp", identifier |-> identifier, otp |-> otp]
    /\ UNCHANGED <<doctors, users, consultations, chat_messages, session, booked,
                   status_set, predictor, login_sessions, clock, issued, failures,
                   session_state, seeding>>

\* del otp_data[identifier]
Remove(f, key) == [k \in DOMAIN f \ {key} |-> f[k]]

\* a verify_otp call on the identifier, in the history
Logged(identifier, result) ==
    IF identifier \in DOMAIN otp_log
    THEN Put(otp_log, identifier,
             [otp_log[identifier] EXCEPT
                 !.calls = @ + 1,
                 !.verified = IF result THEN @ + 1 ELSE @])
    ELSE otp_log

\* attempts >= 3: the limit is never reached
MutAttemptsUsedUpNever(stored) == FALSE

\* stored_data['attempts'] >= 3
AttemptsUsedUp(stored) == stored.attempts >= MaxOtpAttempts

\* No stored OTP: False.  Expired, or three attempts made: the OTP is deleted,
\* False.  Otherwise the attempt is counted; a matching code deletes the OTP
\* and gives True, another code gives False.
verify_otp(identifier, otp) ==
    /\ LET call == [op |-> "verify_otp", identifier |-> identifier, otp |-> otp,
                    now |-> clock]
       IN  IF identifier \notin DOMAIN otp_storage
           THEN /\ otp_storage' = otp_storage
                /\ otp_log' = Logged(identifier, FALSE)
                /\ ret' = call @@ [result |-> FALSE]
           ELSE LET stored_data == otp_storage[identifier]
                IN  IF clock > stored_data.expires_at
                    THEN /\ otp_storage' = Remove(otp_storage, identifier)
                         /\ otp_log' = Logged(identifier, FALSE)
                         /\ ret' = call @@ [result |-> FALSE]
                    ELSE IF AttemptsUsedUp(stored_data)
                    THEN /\ otp_storage' = Remove(otp_storage, identifier)
                         /\ otp_log' = Logged(identifier, FALSE)
                         /\ ret' = call @@ [result |-> FALSE]
                    ELSE IF stored_data.otp = otp
                    THEN /\ otp_storage' = Remove(otp_storage, identifier)
                         /\ otp_log' = Logged(identifier, TRUE)
                         /\ ret' = call @@ [result |-> TRUE]
                    ELSE /\ otp_storage' =
                               [otp_storage EXCEPT ![identifier].attempts = @ + 1]
                         /\ otp_log' = Logged(identifier, FALSE)
                         /\ ret' = call @@ [result |-> FALSE]
    /\ UNCHANGED <<doctors, users, consultations, chat_messages, session, booked,
                   status_set, predictor, login_sessions, clock, issued, failures,
                   session_state, seeding>>

-----------------------------------------------------------------------------
(* consultations table *)

ConsultationIds(tbl) == {tbl[i].id : i \in 1..Len(tbl)}

ConsultationById(tbl, c) == CHOOSE r \in {tbl[i] : i \in 1..Len(tbl)} : r.id = c

\* f"https://meet.jit.si/heartcare-{secrets.token_urlsafe(8)}"
GenerateVideoLink(token) == <<LinkPrefix, token>>

\* the link book_consultation computes before the INSERT
BookingVideoLink(type, token) ==
    IF type = "Video Consultation" THEN GenerateVideoLink(token) ELSE NoLink

\* consultation_type, consultation_date and consultation_time are NOT NULL
InsertAccepted(data) ==
    data.type # NULL

\* the row the INSERT of book_consultation creates: AUTOINCREMENT id, the
\* schema defaults for duration_minutes (also passed explicitly) and status
NewConsultation(tbl, doctor_id, patient_id, data, link) ==
    [id |-> Len(tbl) + 1, doctor_id |-> doctor_id, patient_id |-> patient_id,
     consultation_type |-> data.type, consultation_date |-> data.date,
     consultation_time |-> data.time, duration_minutes |-> DefaultDuration,
     status |-> DefaultStatus, notes |-> "", video_call_link |-> link]

\* INSERT OR REPLACE hitting the newest row
MutInsertReplacing(tbl, row) ==
    IF Len(tbl) = 0 THEN <<row>> ELSE [tbl EXCEPT ![Len(tbl)] = row]

\* INSERT INTO consultations (...) VALUES (...)
InsertConsultation(tbl, row) == Append(tbl, row)

\* The table init_doctor_database creates has a duration_minutes column, so
\* the PRAGMA test takes the first INSERT.  Any exception (here: a NOT NULL
\* violation) is caught and reported as success False, nothing committed.
book_consultation(doctor_id, patient_id, data, token) ==
    /\ Len(consultations) < MaxConsultations
    /\ LET link == BookingVideoLink(data.type, token) IN
       IF InsertAccepted(data)
       THEN /\ consultations' =
                 InsertConsultation(consultations,
                        NewConsultation(consultations, doctor_id, patient_id, data, link))
            /\ ret' = [op |-> "book_consultation", doctor_id |-> doctor_id,
                       patient_id |-> patient_id, type |-> data.type,
                       success |-> TRUE,
                       consultation_id |-> Len(consultations) + 1,
                       video_call_link |-> link]
            /\ booked' = Append(booked, [consultation_id |-> Len(consultations) + 1,
                                         video_call_link |-> link,
                                         doctor_id |-> doctor_id, type |-> data.type])
       ELSE /\ consultations' = consultations
            /\ ret' = [op |-> "book_consultation", doctor_id |-> doctor_id,
                       patient_id |-> patient_id, type |-> data.type,
                       success |-> FALSE]
            /\ booked' = booked
    /\ UNCHANGED <<doctors, users, chat_messages, session, status_set>>
    /\ UNCHANGED otherStores

\* the UPDATE never committed
MutSetStatusLost(tbl, consultation_id, status) == tbl

\* the status checked against the four legal values before the UPDATE
MutSetStatusValidated(tbl, consultation_id, status) ==
    [i \in 1..Len(tbl) |->
        IF tbl[i].id = consultation_id /\ status \in Statuses
        THEN [tbl[i] EXCEPT !.status = status] ELSE tbl[i]]

\* UPDATE consultations SET status = ? WHERE id = ?
SetStatus(tbl, consultation_id, status) ==
    [i \in 1..Len(tbl) |->
        IF tbl[i].id = consultation_id THEN [tbl[i] EXCEPT !.status = status] ELSE tbl[i]]

update_consultation_status(consultation_id, status) ==
    /\ consultations' = SetStatus(consultations, consultation_id, status)
    /\ ret' = [op |-> "update_consultation_status", success |-> TRUE,
               consultation_id |-> consultation_id, status |-> status]
    /\ status_set' =
          IF consultation_id \in ConsultationIds(consultations)
          THEN [status_set EXCEPT ![consultation_id] = status]
          ELSE status_set
    /\ UNCHANGED <<doctors, users, chat_messages, session, booked>>
    /\ UNCHANGED otherStores

\* ORDER BY consultation_date DESC, consultation_time ASC
MutOrderedBeforeTimeAscending(a, b) ==
    /\ ~Less3(a.consultation_date, b.consultation_date)
    /\ a.consultation_date = b.consultation_date
          => ~Less3(b.consultation_time, a.consultation_time)

\* ORDER BY c.consultation_date DESC, c.consultation_time DESC: a may come
\* before b in the result
OrderedBefore(a, b) ==
    /\ ~Less3(a.consultation_date, b.consultation_date)
    /\ a.consultation_date = b.consultation_date
          => ~Less3(a.consultation_time, b.consultation_time)

\* the orders in which sqlite may return a set of rows under that ORDER BY
\* (the order of rows equal in date and time is not defined)
Orderings(rows) ==
    {sq \in [1..Cardinality(rows) -> rows] :
        /\ \A i, j \in 1..Cardinality(rows) : i # j => sq[i] # sq[j]
        /\ \A i, j \in 1..Cardinality(rows) : i < j => OrderedBefore(sq[i], sq[j])}

\* SELECT c.* FROM consultations c WHERE c.doctor_id = ?
DoctorRows(tbl, doctor_id) ==
    {tbl[i] : i \in {k \in 1..Len(tbl) : tbl[k].doctor_id = doctor_id}}

\* one pass of the enrichment loop: the users.db lookup and the two appended
\* columns
Enrich(row, userTbl) ==
    IF row.patient_id \in UserIds(userTbl)
    THEN row @@ [patient_name |-> UserById(userTbl, row.patient_id).username,
                 patient_email |-> UserById(userTbl, row.patient_id).email]
    ELSE row @@ [patient_name |-> PlaceholderName, patient_email |-> PlaceholderEmail]

\* the loop skipping the rows whose patient has no users row
MutEnrichAllDropsUnknown(rows, userTbl) ==
    LET known == SelectSeq(rows, LAMBDA r : r.patient_id \in UserIds(userTbl))
    IN  [i \in 1..Len(known) |-> Enrich(known[i], userTbl)]

\* the enrichment loop over the fetched rows
EnrichAll(rows, userTbl) ==
    [i \in 1..Len(rows) |-> Enrich(rows[i], userTbl)]

\* The users.db lookups follow the SELECT on another connection; users rows
\* are never changed or deleted, so the call is taken as one step.
get_doctor_consultations(doctor_id) ==
    /\ \E rows \in Orderings(DoctorRows(consultations, doctor_id)) :
          ret' = [op |-> "get_doctor_consultations", doctor_id |-> doctor_id,
                  rows |-> EnrichAll(rows, users)]
    /\ UNCHANGED <<doctors, users, consultations, chat_messages, session, booked, status_set>>
    /\ UNCHANGED otherStores

\* SELECT c.*, d.name, d.specialization FROM consultations c
\* JOIN doctors d ON c.doctor_id = d.id WHERE c.patient_id = ?
PatientRows(tbl, doctorTbl, patient_id) ==
    {tbl[i] @@ [doctor_name |-> DoctorById(doctorTbl, tbl[i].doctor_id).name,
                specialization |-> DoctorById(doctorTbl, tbl[i].doctor_id).specialization] :
        i \in {k \in 1..Len(tbl) : /\ tbl[k].patient_id = patient_id
                                   /\ tbl[k].doctor_id \in DoctorIds(doctorTbl)}}

get_patient_consultations(patient_id) ==
    /\ \E rows \in Orderings(PatientRows(consultations, doctors, patient_id)) :
          ret' = [op |-> "get_patient_consultations", patient_id |-> patient_id,
                  rows |-> rows]
    /\ UNCHANGED <<doctors, users, consultations, chat_messages, session, booked, status_set>>
    /\ UNCHANGED otherStores

-----------------------------------------------------------------------------
(* chat_messages table *)

\* message texts are sequences of characters
Blank == " "

\* str.strip() on the two sides of a text
RECURSIVE LStrip(_)
LStrip(m) == IF m # <<>> /\ Head(m) = Blank THEN LStrip(Tail(m)) ELSE m

RECURSIVE RStrip(_)
RStrip(m) ==
    IF m # <<>> /\ m[Len(m)] = Blank THEN RStrip(SubSeq(m, 1, Len(m) - 1)) ELSE m

Strip(m) == RStrip(LStrip(m))

\* truth value of a str in an if
Truthy(m) == m # <<>>

\* the seconds CURRENT_TIMESTAMP can read: the wall clock has a granularity of
\* one second and does not run backwards, so a new row is stamped no earlier
\* than any row of the table
Seconds == {1, 2}

Now(tbl) == {t \in Seconds : \A i \in 1..Len(tbl) : tbl[i].created_at <= t}

\* the row the INSERT creates: AUTOINCREMENT id, created_at DEFAULT
\* CURRENT_TIMESTAMP
NewMessage(tbl, consultation_id, sender_id, sender_type, message, now) ==
    [id |-> Len(tbl) + 1, consultation_id |-> consultation_id,
     sender_id |-> sender_id, sender_type |-> sender_type,
     message |-> message, created_at |-> now]

\* INSERT OR REPLACE hitting the newest message
MutInsertMessageReplacing(tbl, row) ==
    IF Len(tbl) = 0 THEN <<row>> ELSE [tbl EXCEPT ![Len(tbl)] = row]

\* INSERT INTO chat_messages (consultation_id, sender_id, sender_type, message)
InsertMessage(tbl, row) == Append(tbl, row)

\* sender_type and message are NOT NULL; an empty or blank text and any
\* sender_type string are values like any other, and sqlite does not enforce
\* the foreign key on consultation_id
send_chat_message(consultation_id, sender_id, sender_type, message) ==
    /\ Len(chat_messages) < MaxMessages
    /\ \E now \in Now(chat_messages) :
          chat_messages' =
             InsertMessage(chat_messages,
                           NewMessage(chat_messages, consultation_id, sender_id,
                                      sender_type, message, now))
    /\ ret' = [op |-> "send_chat_message", success |-> TRUE,
               consultation_id |-> consultation_id, sender_type |-> sender_type,
               message |-> message]
    /\ UNCHANGED <<doctors, users, consultations, session, booked, status_set>>
    /\ UNCHANGED otherStores

\* SELECT * FROM chat_messages without the WHERE clause
MutMessageRowsUnscoped(tbl, consultation_id) ==
    {tbl[i] : i \in 1..Len(tbl)}

\* SELECT * FROM chat_messages WHERE consultation_id = ?
MessageRows(tbl, consultation_id) ==
    {tbl[i] : i \in {k \in 1..Len(tbl) : tbl[k].consultation_id = consultation_id}}

\* ORDER BY created_at ASC: the orders in which sqlite may return the rows
\* (the order of rows stamped in the same second is not defined)
MessageOrderings(rows) ==
    {sq \in [1..Cardinality(rows) -> rows] :
        /\ \A i, j \in 1..Cardinality(rows) : i # j => sq[i] # sq[j]
        /\ \A i, j \in 1..Cardinality(rows) :
              i < j => sq[i].created_at <= sq[j].created_at}

get_chat_messages(consultation_id) ==
    /\ \E rows \in MessageOrderings(MessageRows(chat_messages, consultation_id)) :
          ret' = [op |-> "get_chat_messages", consultation_id |-> consultation_id,
                  rows |-> rows]
    /\ UNCHANGED <<doctors, users, consultations, chat_messages, session, booked, status_set>>
    /\ UNCHANGED otherStores

-----------------------------------------------------------------------------
(* The chat pages: one script run per session *)

IdleSession == [pc |-> "idle", consultation_id |-> 0, video_call_link |-> NoLink]

\* SELECT c.*, d.name, c.patient_id, c.video_call_link FROM consultations c
\* JOIN doctors d ON c.doctor_id = d.id WHERE c.id = ?
ChatRowFound(tbl, doctorTbl, consultation_id) ==
    /\ consultation_id \in ConsultationIds(tbl)
    /\ ConsultationById(tbl, consultation_id).doctor_id \in DoctorIds(doctorTbl)

\* the check forgotten: a link is generated on every press
MutLinkMissing(link) == TRUE

\* "if not consultation_data['video_call_link']" / "if not video_call_link"
LinkMissing(link) == link = NoLink

\* the UPDATE also confirming the consultation
MutSetVideoLinkConfirms(tbl, consultation_id, link) ==
    [i \in 1..Len(tbl) |->
        IF tbl[i].id = consultation_id
        THEN [tbl[i] EXCEPT !.video_call_link = link, !.status = "confirmed"]
        ELSE tbl[i]]

\* UPDATE consultations SET video_call_link = ? WHERE id = ?
SetVideoLink(tbl, consultation_id, link) ==
    [i \in 1..Len(tbl) |->
        IF tbl[i].id = consultation_id
        THEN [tbl[i] EXCEPT !.video_call_link = link] ELSE tbl[i]]

\* the top of a script run of `page`: the SELECT, and the locals it fills
PageSelect(s, page, consultation_id) ==
    /\ session[s].pc = "idle"
    /\ IF ChatRowFound(consultations, doctors, consultation_id)
       THEN /\ session' = [session EXCEPT ![s] =
                   [pc |-> page, consultation_id |-> consultation_id,
                    video_call_link |->
                        ConsultationById(consultations, consultation_id).video_call_link]]
            /\ ret' = [op |-> page, session |-> s, found |-> TRUE]
       ELSE /\ session' = session
            /\ ret' = [op |-> page, session |-> s, found |-> FALSE]
    /\ UNCHANGED <<doctors, users, consultations, chat_messages, booked, status_set>>
    /\ UNCHANGED otherStores

\* the video button of `page` in the same run: generate and store a link when
\* the row read at the top of the run had none, then show the link
PageVideoCall(s, page) ==
    /\ session[s].pc = page
    /\ IF LinkMissing(session[s].video_call_link)
       THEN \E token \in Tokens :
               /\ consultations' = SetVideoLink(consultations, session[s].consultation_id,
                                                GenerateVideoLink(token))
               /\ ret' = [op |-> "video_call", session |-> s,
                          consultation_id |-> session[s].consultation_id,
                          video_call_link |-> GenerateVideoLink(token)]
       ELSE /\ consultations' = consultations
            /\ ret' = [op |-> "video_call", session |-> s,
                       consultation_id |-> session[s].consultation_id,
                       video_call_link |-> session[s].video_call_link]
    /\ session' = [session EXCEPT ![s] = IdleSession]
    /\ UNCHANGED <<doctors, users, chat_messages, booked, status_set>>
    /\ UNCHANGED otherStores

\* chat_page.py
create_modern_chat_page_select(s, consultation_id) ==
    PageSelect(s, "chat_page", consultation_id)

create_modern_chat_page_video_call(s) == PageVideoCall(s, "chat_page")

\* the dashboards' chat section
render_chat_interface_select(s, consultation_id) ==
    PageSelect(s, "chat_interface", consultation_id)

render_chat_interface_start_video_call(s) == PageVideoCall(s, "chat_interface")

\* a run that ends with no video button pressed
script_end(s) ==
    /\ session[s].pc # "idle"
    /\ session' = [session EXCEPT ![s] = IdleSession]
    /\ ret' = [op |-> "script_end", session |-> s]
    /\ UNCHANGED <<doctors, users, consultations, chat_messages, booked, status_set>>
    /\ UNCHANGED otherStores

\* the user a session is logged in as (st.session_state.user_data['user_id'])
SessionUserId(s) == IF s = "doctor" THEN 2 ELSE 1

\* 'doctor' if is_doctor() else 'patient'
SessionSenderType(s) == IF s = "doctor" THEN "doctor" ELSE "patient"

\* the send form of `page` submitted with `message` in a run that found the
\* consultation: the page's test of the text, the INSERT when it passes and
\* st.rerun(); nothing is sent when it does not pass
PageSend(s, page, passes, message) ==
    /\ session[s].pc = page
    /\ Len(chat_messages) < MaxMessages
    /\ IF passes
       THEN \E now \in Now(chat_messages) :
               chat_messages' =
                  InsertMessage(chat_messages,
                                NewMessage(chat_messages, session[s].consultation_id,
                                           SessionUserId(s), SessionSenderType(s),
                                           message, now))
       ELSE chat_messages' = chat_messages
    /\ ret' = [op |-> "send_form", page |-> page, session |-> s,
               consultation_id |-> session[s].consultation_id,
               message |-> message, sent |-> passes]
    /\ session' = [session EXCEPT ![s] = IdleSession]
    /\ UNCHANGED <<doctors, users, consultations, booked, status_set>>
    /\ UNCHANGED otherStores

\* chat_page.py: "if send_button and message.strip()"
create_modern_chat_page_send(s, message) ==
    PageSend(s, "chat_page", Truthy(Strip(message)), message)

\* the dashboards' chat section: "if message"
render_chat_interface_send(s, message) ==
    PageSend(s, "chat_interface", Truthy(message), message)

-----------------------------------------------------------------------------
(* Construction of the registry, and the patients script *)

fake_patients ==
    << <<"John Smith", "john.smith@email.com", "+91 98765 43201">>,
       <<"Sarah Johnson", "sarah.johnson@email.com", "+91 98765 43202">>,
       <<"Mike Wilson", "mike.wilson@email.com", "+91 98765 43203">>,
       <<"Emily Davis", "emily.davis@email.com", "+91 98765 43204">>,
       <<"David Brown", "david.brown@email.com", "+91 98765 43205">> >>

\* the ids of the first n of the selected rows, in rowid order
\* (SELECT id ... LIMIT n)
FirstIds(rows, n) ==
    [k \in 1..(IF Len(rows) < n THEN Len(rows) ELSE n) |-> rows[k].id]

\* SELECT ... FROM users WHERE role = "patient"
Patients(userTbl) == SelectSeq(userTbl, LAMBDA r : r.role = "patient")

\* fake_users.py: as many of fake_patients as are missing to five patients;
\* a UNIQUE violation ends the script before its commit
add_more_fake_patients ==
    /\ LET count == Len(Patients(users))
           needed == 5 - count
           conflict ==
              \E k \in 1..needed : \E i \in 1..Len(users) :
                 \/ users[i].username = fake_patients[k][1]
                 \/ users[i].email = fake_patients[k][2]
                 \/ users[i].phone = fake_patients[k][3]
       IN  users' =
              IF needed > 0 /\ ~conflict
              THEN users \o [k \in 1..needed |->
                                [NewUser(users, fake_patients[k][1], fake_patients[k][2],
                                         fake_patients[k][3], "password123",
                                         CHOOSE salt \in Salts : TRUE, "patient")
                                    EXCEPT !.id = Len(users) + k]]
              ELSE users
    /\ ret' = [op |-> "add_more_fake_patients"]
    /\ UNCHANGED <<doctors, consultations, chat_messages, session, booked, status_set>>
    /\ UNCHANGED otherStores

\* (doctor, patient, type, date, time, status) of the five seed consultations,
\* doctor and patient as indexes into doctor_ids and patient_ids
fake_consultations ==
    << <<1, 1, "Video Consultation", <<2025, 6, 30>>, <<10, 0, 0>>, "pending">>,
       <<1, 2, "Chat Consultation", <<2025, 6, 30>>, <<14, 0, 0>>, "confirmed">>,
       <<2, 3, "Video Consultation", <<2025, 7, 1>>, <<11, 0, 0>>, "pending">>,
       <<2, 4, "In-Person", <<2025, 7, 1>>, <<15, 0, 0>>, "confirmed">>,
       <<3, 5, "Video Consultation", <<2025, 7, 2>>, <<9, 0, 0>>, "pending">> >>

\* The INSERTs of the seed consultations and their commit, for the first
\* three doctors and the first five patients; building the list raises
\* IndexError, before any INSERT, with fewer than three doctors or five
\* patients
InsertFakeConsultations(tbl, doctorTbl, userTbl) ==
    LET doctor_ids == FirstIds(doctorTbl, 3)
        patient_ids == FirstIds(Patients(userTbl), 5)
    IN  IF Len(doctor_ids) >= 3 /\ Len(patient_ids) >= 5
        THEN tbl \o
             [k \in 1..Len(fake_consultations) |->
                 [id |-> Len(tbl) + k, doctor_id |-> doctor_ids[fake_consultations[k][1]],
                  patient_id |-> patient_ids[fake_consultations[k][2]],
                  consultation_type |-> fake_consultations[k][3],
                  consultation_date |-> fake_consultations[k][4],
                  consultation_time |-> fake_consultations[k][5],
                  duration_minutes |-> DefaultDuration,
                  status |-> fake_consultations[k][6], notes |-> "seed",
                  video_call_link |-> NoLink]]
        ELSE tbl

\* INSERT of the seed consultations when the table is empty and doctors and
\* patients exist
add_fake_consultations(tbl, doctorTbl, userTbl) ==
    IF Len(tbl) = 0
    THEN InsertFakeConsultations(tbl, doctorTbl, userTbl)
    ELSE tbl

\* DoctorRegistry(): CREATE TABLE IF NOT EXISTS, then the two seedings; every
\* page constructs one
DoctorRegistry_init ==
    /\ doctors' = add_fake_doctors(doctors)
    /\ consultations' = add_fake_consultations(consultations, doctors', users)
    /\ ret' = [op |-> "DoctorRegistry"]
    /\ UNCHANGED <<users, chat_messages, session, booked, status_set>>
    /\ UNCHANGED otherStores

\* what a construction leaves alone
notSeeded ==
    <<users, chat_messages, session, booked, status_set, predictor, login_sessions,
      otp_storage, clock, issued, failures, otp_log, session_state>>

\* The construction statement by statement, as the script run of a browser
\* executes it next to the other browser's: SELECT COUNT(*) FROM doctors,
add_fake_doctors_count(b) ==
    /\ seeding[b].pc = "idle"
    /\ seeding' = [seeding EXCEPT ![b] = [pc |-> "doctors_counted",
                                          count |-> Len(doctors)]]
    /\ ret' = [op |-> "add_fake_doctors", browser |-> b]
    /\ UNCHANGED <<doctors, consultations>>
    /\ UNCHANGED notSeeded

\* the INSERTs if that count was 0,
add_fake_doctors_insert(b) ==
    /\ seeding[b].pc = "doctors_counted"
    /\ doctors' = IF seeding[b].count = 0 THEN InsertFakeDoctors(doctors) ELSE doctors
    /\ seeding' = [seeding EXCEPT ![b] = [pc |-> "doctors_seeded", count |-> 0]]
    /\ ret' = [op |-> "add_fake_doctors", browser |-> b]
    /\ UNCHANGED consultations
    /\ UNCHANGED notSeeded

\* SELECT COUNT(*) FROM consultations,
add_fake_consultations_count(b) ==
    /\ seeding[b].pc = "doctors_seeded"
    /\ seeding' = [seeding EXCEPT ![b] = [pc |-> "consultations_counted",
                                          count |-> Len(consultations)]]
    /\ ret' = [op |-> "add_fake_consultations", browser |-> b]
    /\ UNCHANGED <<doctors, consultations>>
    /\ UNCHANGED notSeeded

\* and the INSERTs if that count was 0, which end the construction
add_fake_consultations_insert(b) ==
    /\ seeding[b].pc = "consultations_counted"
    /\ consultations' =
          IF seeding[b].count = 0
          THEN InsertFakeConsultations(consultations, doctors, users)
          ELSE consultations
    /\ seeding' = [seeding EXCEPT ![b] = NotConstructing]
    /\ ret' = [op |-> "DoctorRegistry", browser |-> b]
    /\ UNCHANGED doctors
    /\ UNCHANGED notSeeded

-----------------------------------------------------------------------------
(* The predictor (predict.py) *)

feature_names ==
    <<"age", "sex", "cp", "trestbps", "chol", "fbs", "restecg",
      "thalach", "exang", "oldpeak", "slope", "ca", "thal">>

\* no HeartDiseasePredictor has been constructed
NoPredictor == [constructed |-> FALSE, model |-> FALSE, scaler |-> FALSE]

\* load_model_and_scaler: the model is unpickled first, then the scaler; the
\* first failure ends the loading and leaves what was not loaded None
load_model_and_scaler(model_ok, scaler_ok) ==
    [constructed |-> TRUE, model |-> model_ok, scaler |-> model_ok /\ scaler_ok]

HeartDiseasePredictor_init(model_ok, scaler_ok) ==
    /\ predictor' = load_model_and_scaler(model_ok, scaler_ok)
    /\ ret' = [op |-> "HeartDiseasePredictor"]
    /\ UNCHANGED <<doctors, users, consultations, chat_messages, session, booked,
                   status_set, login_sessions, otp_storage, clock, issued, failures,
                   otp_log,
                   session_state, seeding>>

\* An input_data is its Python type, the keys of a dict, the shape
\* np.array(input_data) has for a list or an array, and what its values are:
\* all finite numbers, some NaN, some infinity, or texts.

\* set(self.feature_names) - set(input_data.keys()): nothing is found missing
MutMissingFeaturesNone(input_data) == {}

\* set(self.feature_names) - set(input_data.keys())
missing_features(input_data) ==
    {feature_names[k] : k \in 1..Len(feature_names)} \ input_data.keys

\* the array a supported input_data is converted to: one value per feature
\* name for a dict, np.array(input_data) for a list, itself for an array
ToArray(input_data) ==
    IF input_data.type = "dict"
    THEN [shape |-> <<Len(feature_names)>>, values |-> input_data.values]
    ELSE [shape |-> input_data.shape, values |-> input_data.values]

\* input_array.reshape(1, -1) of a one-dimensional array
Reshape(shape) == IF Len(shape) = 1 THEN <<1, shape[1]>> ELSE shape

\* (input_array, is_valid); every exception of the body (IndexError of
\* shape[1] on a 0-d array, TypeError of np.isnan on texts) is caught and
\* returned as (None, False)
validate_input(input_data) ==
    LET Invalid == [input_array |-> None, is_valid |-> FALSE]
    IN  IF input_data.type = "dict" /\ missing_features(input_data) # {}
        THEN Invalid
        ELSE IF input_data.type \notin {"dict", "list", "ndarray"}
        THEN Invalid
        ELSE LET converted == ToArray(input_data)
                 input_array == [shape |-> Reshape(converted.shape),
                                 values |-> converted.values]
             IN  IF Len(input_array.shape) < 2
                 THEN Invalid
                 ELSE IF input_array.shape[2] # Len(feature_names)
                 THEN Invalid
                 ELSE IF input_array.values = "text"
                 THEN Invalid
                 ELSE IF input_array.values \in {"nan", "inf"}
                 THEN Invalid
                 ELSE [input_array |-> Some(input_array), is_valid |-> TRUE]

\* self.scaler.transform accepts a two-dimensional array of at least one row
Transforms(input_array) == Len(input_array.shape) = 2 /\ input_array.shape[1] >= 1

\* the class-1 probabilities the model may report, in percent
Probabilities == {0, 50, 100}

\* (prediction, probability), or (None, None); the prediction is the model's
\* for the first row.  An exception of the scaler or the model is caught.
predict_heart_disease(input_data) ==
    /\ predictor.constructed
    /\ LET call == [op |-> "predict_heart_disease", input_data |-> input_data,
                    model |-> predictor.model, scaler |-> predictor.scaler,
                    raised |-> FALSE]
           validated == validate_input(input_data)
       IN  IF ~predictor.model \/ ~predictor.scaler
           THEN ret' = call @@ [result |-> <<None, None>>]
           ELSE IF ~validated.is_valid
           THEN ret' = call @@ [result |-> <<None, None>>]
           ELSE IF ~Transforms(validated.input_array[1])
           THEN ret' = call @@ [result |-> <<None, None>>]
           ELSE \E prediction \in {0, 1} : \E probability \in Probabilities :
                   ret' = call @@ [result |-> <<Some(prediction), Some(probability)>>]
    /\ UNCHANGED <<doctors, users, consultations, chat_messages, session, booked,
                   status_set>>
    /\ UNCHANGED otherStores

-----------------------------------------------------------------------------
(* The login page, the header and the doctor registration page (app.py) *)

check_authentication(b) == session_state[b].user_authenticated

\* st.session_state.user_data.get('role', 'patient'), 'patient' with no
\* user_data
get_user_role(b) ==
    IF session_state[b].user_data # None
    THEN session_state[b].user_data[1].role
    ELSE "patient"

\* every role but patient counts as doctor
MutIsDoctorNotPatient(b) == get_user_role(b) # "patient"

is_doctor(b) == get_user_role(b) = "doctor"

is_patient(b) == get_user_role(b) = "patient"

\* SELECT id FROM doctors WHERE user_id = ? finds a row of the logged-in user
is_registered(b) ==
    /\ session_state[b].user_data # None
    /\ \E i \in 1..Len(doctors) :
          doctors[i].user_id = session_state[b].user_data[1].user_id

\* The register form submitted on the login page, which is shown to a browser
\* that is not authenticated: register_user and, when it succeeds, store_otp
\* for the email and for the phone
render_register_tab(b, username, email, phone, password, confirm_password, role, email_otp, phone_otp) ==
    /\ ~check_authentication(b)
    /\ NonEmpty(username) /\ NonEmpty(email) /\ NonEmpty(phone)
    /\ NonEmpty(password) /\ NonEmpty(confirm_password)
    /\ password = confirm_password
    /\ register_user_call(username, email, phone, password, role)
    /\ LET stored(otp, otp_type) ==
              [otp |-> otp, type |-> otp_type, created_at |-> clock,
               expires_at |-> clock + OtpMinutes, attempts |-> 0]
           logged(otp) == [otp |-> otp, stored_at |-> clock, calls |-> 0, verified |-> 0]
       IN  IF ret'.success
           THEN /\ otp_storage' = Put(Put(otp_storage, email, stored(email_otp, "email")),
                                      phone, stored(phone_otp, "phone"))
                /\ otp_log' = Put(Put(otp_log, email, logged(email_otp)),
                                  phone, logged(phone_otp))
           ELSE UNCHANGED <<otp_storage, otp_log>>
    /\ UNCHANGED <<doctors, consultations, chat_messages, session, booked, status_set,
                   predictor, login_sessions, clock, issued, failures, session_state,
                   seeding>>

\* The login form submitted on the login page: authenticate_user and, when it
\* succeeds, user_authenticated and user_data of the browser
render_login_tab(b, username, password) ==
    /\ ~check_authentication(b)
    /\ NonEmpty(username) /\ NonEmpty(password)
    /\ authenticate_user(username, password)
    /\ session_state' =
          IF ret'.success
          THEN [session_state EXCEPT
                   ![b].user_authenticated = TRUE,
                   ![b].user_data = Some([user_id |-> ret'.user_id, role |-> ret'.role,
                                          session_token |-> ret'.session_token])]
          ELSE session_state
    /\ UNCHANGED <<doctors, consultations, chat_messages, session, booked, status_set,
                   predictor, otp_storage, clock, otp_log, seeding>>

\* logout of the session's token, then user_authenticated and user_data are
\* deleted; current_page stays
logout_user(b) ==
    /\ check_authentication(b)
    /\ LET user_data == session_state[b].user_data[1]
       IN  /\ login_sessions' = DeleteSession(login_sessions, user_data.session_token)
           /\ issued' = [t \in DOMAIN issued |->
                           IF t = user_data.session_token
                           THEN [issued[t] EXCEPT !.logged_out = TRUE]
                           ELSE issued[t]]
    /\ session_state' = [session_state EXCEPT ![b].user_authenticated = FALSE,
                                              ![b].user_data = None]
    /\ ret' = [op |-> "logout_user", browser |-> b]
    /\ UNCHANGED <<doctors, users, consultations, chat_messages, session, booked,
                   status_set, predictor, otp_storage, clock, failures, otp_log, seeding>>

\* A button of the header: Home, Patient, Doctor and About for everybody,
\* Find Doctors for a patient, Register for another role whose user has no
\* doctors row
render_header(b, page) ==
    /\ check_authentication(b)
    /\ \/ page \in {"home", "patient", "doctor", "about"}
       \/ page = "doctor_search" /\ is_patient(b)
       \/ page = "doctor_registration" /\ ~is_patient(b) /\ ~is_registered(b)
    /\ session_state' = [session_state EXCEPT ![b].current_page = page]
    /\ ret' = [op |-> "render_header", browser |-> b, page |-> page]
    /\ UNCHANGED <<doctors, users, consultations, chat_messages, session, booked,
                   status_set, predictor, login_sessions, otp_storage, clock, issued,
                   failures, otp_log, seeding>>

\* "Register as Doctor" and "Edit Profile" of the doctor page's profile tab,
\* which render_doctor_page shows to a doctor
render_doctor_profile(b) ==
    /\ check_authentication(b)
    /\ session_state[b].current_page = "doctor"
    /\ is_doctor(b)
    /\ session_state[b].user_data # None
    /\ session_state' = [session_state EXCEPT ![b].current_page = "doctor_registration"]
    /\ ret' = [op |-> "render_doctor_profile", browser |-> b]
    /\ UNCHANGED <<doctors, users, consultations, chat_messages, session, booked,
                   status_set, predictor, login_sessions, otp_storage, clock, issued,
                   failures, otp_log, seeding>>

\* A script run in which the doctor registration form is submitted.  main
\* shows the form on the page "doctor_registration" to a doctor, and on the
\* page "doctor" (render_doctor_page) to a doctor without a doctors row;
\* render_doctor_registration returns before the form unless is_doctor(), and
\* calls register_doctor only with user_data in the session state.
main_doctor_registration(b, data) ==
    /\ check_authentication(b)
    /\ \/ session_state[b].current_page = "doctor_registration" /\ is_doctor(b)
       \/ /\ session_state[b].current_page = "doctor"
          /\ is_doctor(b)
          /\ ~is_registered(b)
    /\ is_doctor(b)
    /\ session_state[b].user_data # None
    /\ render_doctor_registration(session_state[b].user_data[1].user_id, data)

\* The columns of a consultations row in the order of the CREATE TABLE, which
\* is the order of the tuple SELECT c.* returns; get_doctor_consultations
\* appends the patient's name and email
ConsultationColumns ==
    <<"id", "doctor_id", "patient_id", "consultation_type", "consultation_date",
      "consultation_time", "duration_minutes", "status", "notes", "video_call_link",
      "created_at", "patient_name", "patient_email">>

\* consultation[n]
Column(consultation, n) == consultation[ConsultationColumns[n + 1]]

\* consultation[n] is a str: the INTEGER columns hold the integers the code
\* inserts
IsStr(n) ==
    ConsultationColumns[n + 1] \notin {"id", "doctor_id", "patient_id", "duration_minutes"}

\* The ids of the consultations a Confirm button is rendered for by the loop
\* of a doctor's view.  For each row, consultation[6].title() is evaluated
\* before the button's test, and an int has no title(): the AttributeError
\* ends the script run at that row.  consultation[6] == 'pending' is False
\* for an int.
ConfirmButtons(rows) ==
    {Column(rows[k], 0) :
        k \in {j \in 1..Len(rows) : IsStr(6) /\ Column(rows[j], 6) = "pending"}}

\* A script run of the doctor page's consultations tab (shown to a doctor
\* with a doctors row) in which the Confirm button with key confirm_<pressed>
\* was pressed, or none with pressed = 0
render_doctor_consultations(b, pressed) ==
    /\ check_authentication(b)
    /\ session_state[b].current_page = "doctor"
    /\ is_doctor(b)
    /\ is_registered(b)
    /\ LET user_id == session_state[b].user_data[1].user_id
           doctor_id ==
              doctors[CHOOSE i \in 1..Len(doctors) :
                         /\ doctors[i].user_id = user_id
                         /\ \A j \in 1..(i - 1) : doctors[j].user_id # user_id].id
       IN  \E rows \in Orderings(DoctorRows(consultations, doctor_id)) :
              LET listed == EnrichAll(rows, users) IN
              /\ pressed \in ConfirmButtons(listed) \cup {0}
              /\ consultations' =
                    IF pressed # 0 THEN SetStatus(consultations, pressed, "confirmed")
                    ELSE consultations
              /\ status_set' =
                    IF pressed # 0 THEN [status_set EXCEPT ![pressed] = "confirmed"]
                    ELSE status_set
              /\ ret' = [op |-> "render_doctor_consultations", browser |-> b,
                         doctor_id |-> doctor_id, rows |-> listed,
                         offered |-> ConfirmButtons(listed),
                         raised |-> (Len(listed) > 0 /\ ~IsStr(6)),
                         pressed |-> pressed]
    /\ UNCHANGED <<doctors, users, chat_messages, session, booked>>
    /\ UNCHANGED otherStores

\* The same run of render_doctor_dashboard (doctor_registry.py), which tests
\* is_doctor() and the doctors row itself and lists the first five rows
render_doctor_dashboard(b, pressed) ==
    /\ check_authentication(b)
    /\ is_doctor(b)
    /\ is_registered(b)
    /\ LET user_id == session_state[b].user_data[1].user_id
           doctor_id ==
              doctors[CHOOSE i \in 1..Len(doctors) :
                         /\ doctors[i].user_id = user_id
                         /\ \A j \in 1..(i - 1) : doctors[j].user_id # user_id].id
       IN  \E rows \in Orderings(DoctorRows(consultations, doctor_id)) :
              LET listed == SubSeq(EnrichAll(rows, users), 1, IF Len(rows) < 5 THEN Len(rows) ELSE 5) IN
              /\ pressed \in ConfirmButtons(listed) \cup {0}
              /\ consultations' =
                    IF pressed # 0 THEN SetStatus(consultations, pressed, "confirmed")
                    ELSE consultations
              /\ status_set' =
                    IF pressed # 0 THEN [status_set EXCEPT ![pressed] = "confirmed"]
                    ELSE status_set
              /\ ret' = [op |-> "render_doctor_dashboard", browser |-> b,
                         doctor_id |-> doctor_id, rows |-> listed,
                         offered |-> ConfirmButtons(listed),
                         raised |-> (Len(listed) > 0 /\ ~IsStr(6)),
                         pressed |-> pressed]
    /\ UNCHANGED <<doctors, users, chat_messages, session, booked>>
    /\ UNCHANGED otherStores

-----------------------------------------------------------------------------
(* Specifications *)

\* the stores as init_doctor_database and init_database create them, but for
\* the doctors table
NoRows ==
    /\ users = <<>>
    /\ consultations = <<>>
    /\ chat_messages = <<>>
    /\ session = [s \in Sessions |-> IdleSession]
    /\ ret = [op |-> "init"]
    /\ booked = <<>>
    /\ status_set = [c \in ConsultationIdInputs |-> NULL]
    /\ predictor = NoPredictor
    /\ login_sessions = <<>>
    /\ otp_storage = <<>>
    /\ clock = 0
    /\ issued = <<>>
    /\ failures = <<>>
    /\ otp_log = <<>>
    /\ session_state = [b \in Browsers |-> NewBrowser]
    /\ seeding = [b \in Browsers |-> NotConstructing]

\* the state after the first DoctorRegistry() and AuthenticationSystem()
\* construction on empty stores: the five seed doctors, no users and so no
\* seed consultations
Init ==
    /\ doctors = add_fake_doctors(<<>>)
    /\ NoRows

\* the stores of a new installation, before any DoctorRegistry() has run
InitCreated ==
    /\ doctors = <<>>
    /\ NoRows

\* one (username, email, phone) per registrable user
UserInputs == {<<"John Smith", "john.smith@email.com", "+91 98765 43201">>}

AllTypes == ConsultationTypes \cup {"Phone Call", NULL}

AllStatuses == Statuses \cup {"archived"}

Dates == {<<2025, 6, 30>>, <<2025, 7, 1>>}

Times == {<<10, 0, 0>>, <<14, 0, 0>>}

\* the calls of the registry and of the authentication system, over the
\* inputs a specification draws them from
Register ==
    \E u \in UserInputs : register_user(u[1], u[2], u[3], "Passw0rd", "patient")

Book(DoctorIn, PatientIn, TypeIn, DateIn, TimeIn, TokenIn) ==
    \E d \in DoctorIn, p \in PatientIn, ty \in TypeIn, dt \in DateIn, tm \in TimeIn,
       token \in TokenIn :
       book_consultation(d, p, [type |-> ty, date |-> dt, time |-> tm], token)

UpdateStatus(StatusIn) ==
    \E c \in ConsultationIdInputs, st \in StatusIn : update_consultation_status(c, st)

ListForDoctor(DoctorIn) ==
    \E d \in DoctorIn : get_doctor_consultations(d)

ListForPatient(PatientIn) ==
    \E p \in PatientIn : get_patient_consultations(p)

Hi == <<"h", "i">>

SendMessage(ConsultationIn, TypeIn, TextIn) ==
    \E c \in ConsultationIn, ty \in TypeIn, m \in TextIn :
       send_chat_message(c, 1, ty, m)

ListMessages(ConsultationIn) ==
    \E c \in ConsultationIn : get_chat_messages(c)

ChatPageSend(s, TextIn) ==
    \E m \in TextIn : create_modern_chat_page_send(s, m)

ChatInterfaceSend(s, TextIn) ==
    \E m \in TextIn : render_chat_interface_send(s, m)

ChatPage(s) ==
    \/ \E c \in ConsultationIdInputs : create_modern_chat_page_select(s, c)
    \/ create_modern_chat_page_video_call(s)
    \/ script_end(s)

ChatInterface(s) ==
    \/ \E c \in ConsultationIdInputs : render_chat_interface_select(s, c)
    \/ render_chat_interface_start_video_call(s)
    \/ script_end(s)

\* Video links: the patient on the chat page, the doctor in the dashboard's
\* chat section, bookings of one doctor with and without a link
NextVideo ==
    \/ Book({1}, {1}, {"Video Consultation", "Chat Consultation"},
            {<<2025, 7, 1>>}, {<<10, 0, 0>>}, Tokens)
    \/ UpdateStatus({"confirmed"})
    \/ ChatPage("patient")
    \/ ChatInterface("doctor")

SpecVideo == Init /\ [][NextVideo]_vars

\* The booking scenario: Video Consultation bookings of two doctors, the
\* doctor's confirmation and the doctor's list
NextScenario ==
    \/ Book({1, 2}, {1}, {"Video Consultation"}, {<<2025, 7, 1>>}, {<<10, 0, 0>>}, Tokens)
    \/ UpdateStatus({"confirmed"})
    \/ ListForDoctor({1, 2})

SpecScenario == Init /\ [][NextScenario]_vars

\* Status updates: every status string on every consultation id, next to the
\* other writers of the consultations table
NextStatus ==
    \/ Book({1}, {1}, {"Chat Consultation"}, {<<2025, 7, 1>>}, {<<10, 0, 0>>}, {"tokA"})
    \/ UpdateStatus(AllStatuses)
    \/ ListForDoctor({1})
    \/ ChatPage("patient")

SpecStatus == Init /\ [][NextStatus]_vars

\* Bookings of every type, legal or not, next to the chat messages
NextBook ==
    \/ Book({1, 6}, {1}, AllTypes, {<<2025, 7, 1>>}, {<<10, 0, 0>>}, {"tokA"})
    \/ SendMessage(ConsultationIdInputs, {"patient"}, {Hi})

SpecBook == Init /\ [][NextBook]_vars

\* The two lists: bookings of an existing and a missing doctor, for a
\* registered and an unregistered patient, on two dates at two times
NextList ==
    \/ Register
    \/ Book({1, 6}, {1, 2}, {"Chat Consultation"}, Dates, Times, {"tokA"})
    \/ ListForDoctor({1, 6})
    \/ ListForPatient({1, 2})

SpecList == Init /\ [][NextList]_vars

\* the profile a registration passes: the four required fields filled, empty
\* or (name) None, the other fields as the form presets them
DoctorData(name, specialization, phone, email) ==
    [name |-> name, specialization |-> specialization, years_experience |-> 5,
     city |-> "Nagpur", phone |-> phone, email |-> email, consultation_fee |-> 500]

DoctorDataInputs ==
    {DoctorData(n, sp, ph, em) :
        n \in {"Dr. John Doe", "", NULL}, sp \in {"Cardiologist", ""},
        ph \in {"+91 98765 43299", ""}, em \in {"doctor@example.com", ""}}

\* the filter dicts get_doctors is called with: each key absent or present,
\* the numeric ones also present with 0
FilterInputs ==
    [specialization : {NoFilter, <<"Cardiologist">>},
     city : {NoFilter, <<"Mumbai">>},
     min_experience : {NoFilter, <<0>>, <<10>>},
     max_fee : {NoFilter, <<0>>, <<1500>>}]

\* every id a doctors row can have, and one that none has
DoctorIdInputs == 1..(MaxDoctors + 1)

RegisterDoctor ==
    \E data \in DoctorDataInputs : register_doctor(1, data)

RegisterDoctorForm ==
    \E data \in DoctorDataInputs : render_doctor_registration(1, data)

FindDoctors ==
    \E filters \in FilterInputs : get_doctors(filters)

DoctorDetails ==
    \E d \in DoctorIdInputs : get_doctor_details(d)

\* The doctors table: registrations, direct and through the form, searches
\* and the details page
NextDoctors ==
    \/ RegisterDoctor
    \/ RegisterDoctorForm
    \/ FindDoctors
    \/ DoctorDetails

SpecDoctors == Init /\ [][NextDoctors]_vars

\* registrations of two names with emails, phones and passwords that pass
\* and that fail the format checks
RegisterAny ==
    \E username \in {"John Smith", "Asha Rao"},
       email \in {"john.smith@email.com", "sarah.johnson@email.com", "john.smith@email"},
       phone \in {"+91 98765 43201", "+91 98765 43202", "98765"},
       password \in {"Passw0rd", "password123"} :
       register_user(username, email, phone, password, "patient")

\* The users table: registrations next to the patients script
NextUsers ==
    \/ RegisterAny
    \/ add_more_fake_patients

SpecUsers == Init /\ [][NextUsers]_vars

\* an empty text, a text of one blank, and a text with content
Texts == {<<>>, <<Blank>>, Hi}

\* Chat order: messages of both parties on two consultations, and their lists
NextChatOrder ==
    \/ SendMessage(ConsultationIdInputs, {"doctor", "patient"}, {Hi})
    \/ ListMessages(ConsultationIdInputs)

SpecChatOrder == Init /\ [][NextChatOrder]_vars

\* The three send paths: direct calls with any text and a sender type that is
\* no party's, the patient on the chat page, the doctor in the dashboard
NextChatSend ==
    \/ Book({1}, {1}, {"Chat Consultation"}, {<<2025, 7, 1>>}, {<<10, 0, 0>>}, {"tokA"})
    \/ SendMessage({1}, {"admin"}, Texts)
    \/ create_modern_chat_page_select("patient", 1)
    \/ ChatPageSend("patient", Texts)
    \/ render_chat_interface_select("doctor", 1)
    \/ ChatInterfaceSend("doctor", Texts)
    \/ \E s \in Sessions : script_end(s)
    \/ ListMessages({1})

SpecChatSend == Init /\ [][NextChatSend]_vars

\* Messages next to every writer of the doctors store: the patients script,
\* registry constructions, bookings, confirmations and the chat page
NextChatFrame ==
    \/ add_more_fake_patients
    \/ DoctorRegistry_init
    \/ Book({1}, {1}, {"Chat Consultation"}, {<<2025, 7, 1>>}, {<<10, 0, 0>>}, {"tokA"})
    \/ UpdateStatus({"confirmed"})
    \/ ChatPage("patient")
    \/ SendMessage({1}, {"patient"}, {Hi})
    \/ ListMessages({1})

SpecChatFrame == Init /\ [][NextChatFrame]_vars

-----------------------------------------------------------------------------
(* Video links (SpecVideo) *)

BookedIds == {booked[i].consultation_id : i \in 1..Len(booked)}

BookedAs(c) == CHOOSE b \in {booked[i] : i \in 1..Len(booked)} : b.consultation_id = c

BookedVideo(c) == c \in BookedIds /\ BookedAs(c).type = "Video Consultation"

\* session s presses the video button in this step
VideoCallStep(s) ==
    /\ session[s].pc # "idle"
    /\ session'[s].pc = "idle"
    /\ ret'.op = "video_call"
    /\ ret'.session = s

\* C1: a successful Video Consultation booking returns a non-null link, the
\* one stored in the new row; each later press of a video button on that
\* consultation shows that same link and writes nothing
C1_VideoLinkIdempotent ==
    [][ /\ (ret'.op = "book_consultation" /\ ret'.success
                /\ ret'.type = "Video Consultation")
            => /\ ret'.video_call_link # NoLink
               /\ ret'.consultation_id \in ConsultationIds(consultations')
               /\ ConsultationById(consultations', ret'.consultation_id).video_call_link
                     = ret'.video_call_link
        /\ \A s \in Sessions :
              (VideoCallStep(s) /\ BookedVideo(session[s].consultation_id))
                 => /\ ret'.video_call_link
                          = BookedAs(session[s].consultation_id).video_call_link
                    /\ consultations' = consultations
      ]_vars

\* a video button was pressed on a consultation booked as Video Consultation
\* and showed the link the booking returned
C1_Witness ==
    /\ ret.op = "video_call"
    /\ BookedVideo(ret.consultation_id)
    /\ ret.video_call_link = BookedAs(ret.consultation_id).video_call_link
    /\ ret.video_call_link # NoLink

\* C2: once a consultation's video_call_link is non-null it never changes to
\* a different value, whatever the interleaving of the two sessions
C2_LinkSetAtMostOnce ==
    [][ \A i \in 1..Len(consultations) :
           consultations[i].video_call_link # NoLink
              => consultations'[i].video_call_link = consultations[i].video_call_link
      ]_vars

\* C3: a Video Consultation booked for a doctor is created pending with a link
\* https://meet.jit.si/heartcare-<token>; when it is the doctor's only
\* consultation and has been set to confirmed, get_doctor_consultations
\* returns exactly one row, confirmed, with the link the booking returned
C3_BookConfirmList ==
    /\ (ret.op = "book_consultation" /\ ret.success /\ ret.type = "Video Consultation")
          => /\ ret.consultation_id \in ConsultationIds(consultations)
             /\ ConsultationById(consultations, ret.consultation_id).status = "pending"
             /\ \E t \in Tokens : ret.video_call_link = <<LinkPrefix, t>>
             /\ ConsultationById(consultations, ret.consultation_id).video_call_link
                   = ret.video_call_link
    /\ ret.op = "get_doctor_consultations"
          => \A c \in BookedIds :
                ( /\ BookedVideo(c)
                  /\ BookedAs(c).doctor_id = ret.doctor_id
                  /\ status_set[c] = "confirmed"
                  /\ \A i \in 1..Len(consultations) :
                        consultations[i].doctor_id = ret.doctor_id
                           => consultations[i].id = c )
                => /\ Len(ret.rows) = 1
                   /\ ret.rows[1].id = c
                   /\ ret.rows[1].status = "confirmed"
                   /\ ret.rows[1].video_call_link = BookedAs(c).video_call_link

\* the scenario's last step: the list of a doctor whose only consultation was
\* booked as Video Consultation and then confirmed
C3_Witness ==
    /\ ret.op = "get_doctor_consultations"
    /\ Len(ret.rows) = 1
    /\ BookedVideo(ret.rows[1].id)
    /\ status_set[ret.rows[1].id] = "confirmed"
    /\ ret.rows[1].status = "confirmed"

-----------------------------------------------------------------------------
(* Status updates (SpecStatus) *)

\* C4: update_consultation_status(c, s) on an existing consultation, for any
\* string s, leaves status s in the row, and a read returns it
C4_StatusReadBack ==
    /\ (ret.op = "update_consultation_status"
            /\ ret.consultation_id \in ConsultationIds(consultations))
          => ConsultationById(consultations, ret.consultation_id).status = ret.status
    /\ ret.op = "get_doctor_consultations"
          => \A k \in 1..Len(ret.rows) :
                status_set[ret.rows[k].id] # NULL
                   => ret.rows[k].status = status_set[ret.rows[k].id]

\* a status outside the four legal ones was set and is read back
C4_Witness ==
    /\ ret.op = "get_doctor_consultations"
    /\ \E k \in 1..Len(ret.rows) :
          /\ status_set[ret.rows[k].id] = "archived"
          /\ ret.rows[k].status = "archived"

\* C5 as stated: a status starts at pending and completed and cancelled are
\* terminal: once a consultation's status is completed or cancelled no
\* operation changes it again
C5_TerminalLifecycle ==
    [][ /\ Len(consultations') > Len(consultations)
            => consultations'[Len(consultations')].status = "pending"
        /\ \A i \in 1..Len(consultations) :
              consultations[i].status \in TerminalStatuses
                 => consultations'[i].status = consultations[i].status
      ]_vars

\* C5 as amended: a booked consultation starts at pending and its status
\* changes only in an update_consultation_status call on it, to the status
\* that call was given
C5_StatusOnlyByUpdate ==
    [][ /\ Len(consultations') > Len(consultations)
            => consultations'[Len(consultations')].status = "pending"
        /\ \A i \in 1..Len(consultations) :
              consultations'[i].status # consultations[i].status
                 => /\ ret'.op = "update_consultation_status"
                    /\ ret'.consultation_id = consultations[i].id
                    /\ consultations'[i].status = ret'.status
      ]_vars

\* a consultation that has a video link, written by a chat page, and whose
\* status an update has moved to a terminal one
C5_Witness ==
    /\ ret.op = "update_consultation_status"
    /\ ret.consultation_id \in ConsultationIds(consultations)
    /\ ret.status \in TerminalStatuses
    /\ ConsultationById(consultations, ret.consultation_id).status = ret.status
    /\ ConsultationById(consultations, ret.consultation_id).video_call_link # NoLink

-----------------------------------------------------------------------------
(* Bookings (SpecBook) *)

\* C6: a successful book_consultation adds exactly one row, pending, with an
\* id no earlier booking returned, and changes no other consultation, doctor
\* or chat message row; a failed one adds no row
C6_BookingFrame ==
    [][ ret'.op = "book_consultation"
          => IF ret'.success
             THEN /\ Len(consultations') = Len(consultations) + 1
                  /\ SubSeq(consultations', 1, Len(consultations)) = consultations
                  /\ consultations'[Len(consultations')].id = ret'.consultation_id
                  /\ consultations'[Len(consultations')].status = "pending"
                  /\ ret'.consultation_id \notin BookedIds
                  /\ ret'.consultation_id \notin ConsultationIds(consultations)
                  /\ doctors' = doctors
                  /\ chat_messages' = chat_messages
             ELSE /\ consultations' = consultations
                  /\ doctors' = doctors
                  /\ chat_messages' = chat_messages
      ]_vars

\* a booking succeeded on top of an earlier consultation and a chat message
C6_Witness ==
    /\ ret.op = "book_consultation"
    /\ ret.success
    /\ Len(consultations) >= 2
    /\ Len(chat_messages) >= 1

\* C7: a booking whose type is not one of the four consultation types is
\* rejected and creates no row
C7_TypeValidated ==
    /\ (ret.op = "book_consultation" /\ ret.type \notin ConsultationTypes)
          => ~ret.success
    /\ \A i \in 1..Len(consultations) :
          consultations[i].consultation_type \in ConsultationTypes

-----------------------------------------------------------------------------
(* The lists (SpecList) *)

\* the table's columns of a returned row are those of the stored row
SameColumns(row, stored) ==
    /\ row.id = stored.id
    /\ row.doctor_id = stored.doctor_id
    /\ row.patient_id = stored.patient_id
    /\ row.consultation_type = stored.consultation_type
    /\ row.consultation_date = stored.consultation_date
    /\ row.consultation_time = stored.consultation_time
    /\ row.status = stored.status
    /\ row.video_call_link = stored.video_call_link

\* rows are in date-descending, then time-descending order
DescendingOrder(rows) ==
    \A j, k \in 1..Len(rows) :
       j < k => \/ Less3(rows[k].consultation_date, rows[j].consultation_date)
                \/ /\ rows[k].consultation_date = rows[j].consultation_date
                   /\ ~Less3(rows[j].consultation_time, rows[k].consultation_time)

\* C8: a booking for a patient_id with no users row succeeds, and the
\* doctor's list returns that row with "Unknown Patient" / "unknown@email.com"
C8_UnknownPatientPlaceholder ==
    /\ (ret.op = "book_consultation" /\ ret.patient_id \notin UserIds(users)
            /\ ret.type # NULL)
          => /\ ret.success
             /\ ret.consultation_id \in ConsultationIds(consultations)
             /\ ConsultationById(consultations, ret.consultation_id).patient_id
                   = ret.patient_id
    /\ ret.op = "get_doctor_consultations"
          => \A i \in 1..Len(consultations) :
                ( /\ consultations[i].doctor_id = ret.doctor_id
                  /\ consultations[i].patient_id \notin UserIds(users) )
                => \E k \in 1..Len(ret.rows) :
                      /\ SameColumns(ret.rows[k], consultations[i])
                      /\ ret.rows[k].patient_name = "Unknown Patient"
                      /\ ret.rows[k].patient_email = "unknown@email.com"

\* a doctor's list holding a registered patient's row and a placeholder row
C8_Witness ==
    /\ ret.op = "get_doctor_consultations"
    /\ \E k \in 1..Len(ret.rows) : ret.rows[k].patient_name = "Unknown Patient"
    /\ \E k \in 1..Len(ret.rows) : ret.rows[k].patient_name = "John Smith"

\* C9: get_doctor_consultations(d) returns one enriched row per consultation
\* of doctor d and none of another doctor, by date descending then time
\* descending
C9_DoctorListComplete ==
    ret.op = "get_doctor_consultations"
       => LET mine == {i \in 1..Len(consultations) :
                          consultations[i].doctor_id = ret.doctor_id}
          IN  /\ Len(ret.rows) = Cardinality(mine)
              /\ \A i \in mine : \E k \in 1..Len(ret.rows) :
                    SameColumns(ret.rows[k], consultations[i])
              /\ \A k \in 1..Len(ret.rows) : ret.rows[k].doctor_id = ret.doctor_id
              /\ DescendingOrder(ret.rows)

\* a doctor's list of two consultations on one date at different times, while
\* nothing was booked for the other doctor
C9_Witness ==
    /\ ret.op = "get_doctor_consultations"
    /\ Len(ret.rows) = 2
    /\ ret.rows[1].consultation_date = ret.rows[2].consultation_date
    /\ ret.rows[1].consultation_time # ret.rows[2].consultation_time

\* C10: get_patient_consultations(p) returns every consultation of patient p,
\* those of a doctor_id without a doctors row included, by date descending
\* then time descending
C10_PatientListComplete ==
    ret.op = "get_patient_consultations"
       => LET mine == {i \in 1..Len(consultations) :
                          consultations[i].patient_id = ret.patient_id}
          IN  /\ Len(ret.rows) = Cardinality(mine)
              /\ \A i \in mine : \E k \in 1..Len(ret.rows) :
                    SameColumns(ret.rows[k], consultations[i])
              /\ DescendingOrder(ret.rows)

-----------------------------------------------------------------------------
(* Chat messages (SpecChatOrder, SpecChatSend, SpecChatFrame) *)

\* the positions in chat_messages of the messages of consultation c
MessagesOf(tbl, c) == {i \in 1..Len(tbl) : tbl[i].consultation_id = c}

\* C11: get_chat_messages(c) returns every message sent on consultation c, in
\* append order and with non-decreasing created_at, also when messages were
\* stamped in the same second
C11_AppendOrder ==
    ret.op = "get_chat_messages"
       => /\ Len(ret.rows) = Cardinality(MessagesOf(chat_messages, ret.consultation_id))
          /\ \A i \in MessagesOf(chat_messages, ret.consultation_id) :
                \E k \in 1..Len(ret.rows) : ret.rows[k] = chat_messages[i]
          /\ \A j, k \in 1..Len(ret.rows) :
                j < k => /\ ret.rows[j].id < ret.rows[k].id
                         /\ ret.rows[j].created_at <= ret.rows[k].created_at

\* C12: a message whose text is empty or only blanks is refused on each send
\* path (send_chat_message, the chat page form, the dashboard form) and no
\* such message is ever stored
C12_BlankRejected ==
    /\ (ret.op = "send_chat_message" /\ ~Truthy(Strip(ret.message))) => ~ret.success
    /\ (ret.op = "send_form" /\ ~Truthy(Strip(ret.message))) => ~ret.sent
    /\ \A i \in 1..Len(chat_messages) : Truthy(Strip(chat_messages[i].message))

\* C13: send_chat_message refuses a sender_type other than doctor and
\* patient, and every stored message has one of the two
C13_SenderTypeValidated ==
    /\ (ret.op = "send_chat_message" /\ ret.sender_type \notin {"doctor", "patient"})
          => ~ret.success
    /\ \A i \in 1..Len(chat_messages) :
          chat_messages[i].sender_type \in {"doctor", "patient"}

\* C14: no step -- booking, status update, video link, further send, registry
\* construction and seeding, patients script -- changes or removes a stored
\* message, and get_chat_messages of its consultation keeps returning it
C14_MessagesPermanent ==
    [][ /\ Len(chat_messages') >= Len(chat_messages)
        /\ \A i \in 1..Len(chat_messages) : chat_messages'[i] = chat_messages[i]
        /\ ret'.op = "get_chat_messages"
              => \A i \in MessagesOf(chat_messages', ret'.consultation_id) :
                    \E k \in 1..Len(ret'.rows) : ret'.rows[k] = chat_messages'[i]
      ]_vars

\* C29: get_chat_messages(c) returns only stored messages that were sent with
\* consultation_id = c, and a send_chat_message on consultation c leaves what
\* get_chat_messages(c2) may return as it was for every other consultation c2
C29_ScopedToConsultation ==
    [][ /\ ret'.op = "get_chat_messages"
              => \A k \in 1..Len(ret'.rows) :
                    /\ ret'.rows[k].consultation_id = ret'.consultation_id
                    /\ \E i \in 1..Len(chat_messages') : chat_messages'[i] = ret'.rows[k]
        /\ ret'.op = "send_chat_message"
              => \A c2 \in ConsultationIdInputs \ {ret'.consultation_id} :
                    MessageOrderings(MessageRows(chat_messages', c2))
                       = MessageOrderings(MessageRows(chat_messages, c2))
      ]_vars

\* the one message of a consultation listed after a message was sent on
\* another consultation
C29_Witness ==
    /\ ret.op = "get_chat_messages"
    /\ Len(ret.rows) = 1
    /\ Len(chat_messages) = 2
    /\ chat_messages[1].consultation_id = ret.consultation_id
    /\ chat_messages[2].consultation_id # ret.consultation_id

\* two messages listed for a consultation of a store that has since been
\* seeded, with a consultation confirmed and given a video link
C14_Witness ==
    /\ ret.op = "get_chat_messages"
    /\ Len(ret.rows) = 2
    /\ Len(consultations) = Len(fake_consultations)
    /\ consultations[1].status = "confirmed"
    /\ consultations[1].video_call_link # NoLink

-----------------------------------------------------------------------------
(* The doctors table (SpecDoctors) *)

\* the ids of the doctors a search returned
ReturnedIds(rows) == {rows[k].id : k \in 1..Len(rows)}

\* C15: get_doctors with min_experience = N, 0 included, returns no doctor
\* with years_experience < N; with max_fee = F, 0 included, none with
\* consultation_fee > F; with both, the intersection of the two single-filter
\* results
C15_FilterBounds ==
    ret.op = "get_doctors"
       => /\ ret.filters.min_experience # NoFilter
                => \A k \in 1..Len(ret.rows) :
                      ret.rows[k].years_experience >= ret.filters.min_experience[1]
          /\ ret.filters.max_fee # NoFilter
                => \A k \in 1..Len(ret.rows) :
                      ret.rows[k].consultation_fee <= ret.filters.max_fee[1]
          /\ (ret.filters.min_experience # NoFilter /\ ret.filters.max_fee # NoFilter)
                => ReturnedIds(ret.rows) =
                      {r.id : r \in DoctorResultRows(doctors,
                                       [ret.filters EXCEPT !.max_fee = NoFilter])}
                      \cap
                      {r.id : r \in DoctorResultRows(doctors,
                                       [ret.filters EXCEPT !.min_experience = NoFilter])}

\* a doctor meets a filter that is present in the dict, whatever its value
MeetsSupplied(d, filters) ==
    /\ filters.specialization # NoFilter => d.specialization = filters.specialization[1]
    /\ filters.city # NoFilter => d.city = filters.city[1]
    /\ filters.min_experience # NoFilter
          => d.years_experience >= filters.min_experience[1]
    /\ filters.max_fee # NoFilter => d.consultation_fee <= filters.max_fee[1]

\* C16: get_doctors returns exactly the available doctors that meet every
\* filter supplied, each once, a doctor without reviews included with a review
\* count of zero
C16_AvailableMatchingOnce ==
    ret.op = "get_doctors"
       => /\ ReturnedIds(ret.rows) =
                {doctors[i].id : i \in {k \in 1..Len(doctors) :
                                          /\ doctors[k].is_available
                                          /\ MeetsSupplied(doctors[k], ret.filters)}}
          /\ Len(ret.rows) = Cardinality(ReturnedIds(ret.rows))
          /\ \A k \in 1..Len(ret.rows) :
                ret.rows[k].review_count = Cardinality(ReviewsOf(ret.rows[k].id))

\* one of the four required fields is empty or None
RequiredFieldEmpty(data) ==
    \/ data.name \in {"", NULL}
    \/ data.specialization \in {"", NULL}
    \/ data.phone \in {"", NULL}
    \/ data.email \in {"", NULL}

\* C17: a registration with an empty name, specialization, phone or email
\* fails and creates no row, so no doctors row has one of them empty; any
\* other registration creates the row, linked to user_id, whose id it returns
C17_RequiredFields ==
    /\ ret.op \in {"register_doctor", "render_doctor_registration"}
          => IF RequiredFieldEmpty(ret.data)
             THEN ~ret.success
             ELSE /\ ret.success
                  /\ ret.doctor_id \in DoctorIds(doctors)
                  /\ DoctorById(doctors, ret.doctor_id).user_id = ret.user_id
                  /\ DoctorById(doctors, ret.doctor_id).name = ret.data.name
    /\ \A i \in 1..Len(doctors) : ~RequiredFieldEmpty(doctors[i])

\* C18: get_doctor_details(id) returns the doctor and its reviews for every
\* id of the doctors table, and None only for an id no doctor has
C18_DetailsFound ==
    ret.op = "get_doctor_details"
       => (ret.found <=> ret.doctor_id \in DoctorIds(doctors))

-----------------------------------------------------------------------------
(* Failures of a status update (SpecStatus) *)

\* C19: update_consultation_status on an id no consultation has returns
\* {'success': False, ...} and changes no consultation row
C19_NotFoundFailure ==
    [][ (ret'.op = "update_consultation_status"
            /\ ret'.consultation_id \notin ConsultationIds(consultations))
          => /\ ~ret'.success
             /\ consultations' = consultations
      ]_vars

-----------------------------------------------------------------------------
(* The users table (SpecUsers) *)

\* the call passed the three format checks of register_user
PassesFormatChecks(call) ==
    /\ validate_email(call.email)
    /\ validate_phone(call.phone)
    /\ validate_password_strength(call.password)

\* the messages that match the columns in which the call repeats a row of tbl
MatchingMessages(tbl, call) ==
    {m \in {"Username already exists", "Email already registered",
            "Phone number already registered"} :
        \E i \in 1..Len(tbl) :
           \/ m = "Username already exists" /\ tbl[i].username = call.username
           \/ m = "Email already registered" /\ tbl[i].email = call.email
           \/ m = "Phone number already registered" /\ tbl[i].phone = call.phone}

-----------------------------------------------------------------------------
(* Predictor inputs *)

FeatureSet == {feature_names[k] : k \in 1..Len(feature_names)}

\* Dicts with every feature, with one feature missing, with a key no feature
\* has, and the empty dict; lists and arrays of several shapes; a tuple of
\* thirteen numbers, a text, None.  Values are all finite, or some NaN, some
\* infinite, or texts.
PredictorInputs ==
    LET ValueKinds == {"finite", "nan", "inf", "text"}
        ListShapes == {<<0>>, <<12>>, <<13>>, <<14>>, <<1, 13>>, <<2, 13>>, <<2, 12>>}
        ArrayShapes == ListShapes \cup {<<>>, <<0, 13>>, <<1, 13, 1>>, <<1, 1, 13>>}
    IN  {[type |-> "dict", keys |-> ks, shape |-> <<>>, values |-> v] :
            ks \in {FeatureSet, FeatureSet \cup {"name"}, {}}
                   \cup {FeatureSet \ {f} : f \in FeatureSet},
            v \in ValueKinds}
        \cup {[type |-> "list", keys |-> {}, shape |-> s, values |-> v] :
                 s \in ListShapes, v \in ValueKinds}
        \cup {[type |-> "ndarray", keys |-> {}, shape |-> s, values |-> v] :
                 s \in ArrayShapes, v \in ValueKinds}
        \cup {[type |-> "tuple", keys |-> {}, shape |-> <<13>>, values |-> "finite"],
              [type |-> "str", keys |-> {}, shape |-> <<>>, values |-> "text"],
              [type |-> "NoneType", keys |-> {}, shape |-> <<>>, values |-> "finite"]}

\* Constructions of the predictor with the model and the scaler file each
\* loading or not, and predictions
NextPredict ==
    \/ \E model_ok \in BOOLEAN, scaler_ok \in BOOLEAN :
          HeartDiseasePredictor_init(model_ok, scaler_ok)
    \/ \E input_data \in PredictorInputs : predict_heart_disease(input_data)

SpecPredict == Init /\ [][NextPredict]_vars

\* the number of fields of each sample of a list or an array
FieldCount(shape) ==
    IF Len(shape) = 0 THEN 0 ELSE IF Len(shape) = 1 THEN shape[1] ELSE shape[2]

\* a dict missing a named field, a vector whose field count is not 13, or an
\* unsupported input type
Malformed(input_data) ==
    \/ input_data.type = "dict" /\ ~(FeatureSet \subseteq input_data.keys)
    \/ input_data.type \in {"list", "ndarray"} /\ FieldCount(input_data.shape) # 13
    \/ input_data.type \notin {"dict", "list", "ndarray"}

\* C21: predict_heart_disease returns (None, None), without raising, whenever
\* the input is malformed (a dict missing one of the 13 named fields, a vector
\* whose field count is not 13, an unsupported type) or the model or the
\* scaler failed to load; what it returns otherwise is (None, None) or a
\* (prediction, probability) pair, so a pair is returned only for a
\* well-formed 13-field input on a loaded predictor
C21_MalformedReturnsNone ==
    ret.op = "predict_heart_disease" =>
        /\ ~ret.raised
        /\ Malformed(ret.input_data) \/ ~ret.model \/ ~ret.scaler
              => ret.result = <<None, None>>
        /\ \/ ret.result = <<None, None>>
           \/ /\ Len(ret.result[1]) = 1 /\ Len(ret.result[2]) = 1
              /\ ret.result[1][1] \in {0, 1}

\* a dict lacking only "thal" was refused by a predictor that had loaded both
\* the model and the scaler
C21_Witness ==
    /\ ret.op = "predict_heart_disease"
    /\ ret.model /\ ret.scaler
    /\ ret.input_data.type = "dict"
    /\ ret.input_data.keys = FeatureSet \ {"thal"}
    /\ ret.input_data.values = "finite"
    /\ ret.result = <<None, None>>

-----------------------------------------------------------------------------
(* Logins *)

\* A registration, logins of the registered user and of a name nobody
\* registered, with the registered password and with another one, and
\* quarters of an hour passing
NextAuth ==
    \/ Register
    \/ \E username \in {"John Smith", "Sarah Johnson"},
          password \in {"Passw0rd", "password123"} :
          AuthenticateUser(username, password)
    \/ Elapse(15)

SpecAuth == Init /\ [][NextAuth]_vars

\* C23: the account is locked exactly when the wrong passwords checked since
\* the user's last successful login have reached 5: login_attempts is that
\* number (each wrong password adds one, a success resets it to 0 and clears
\* the lock), and is_locked is set, with a lock_until, exactly when it is 5
\* or more
C23_LockedAtFive ==
    \A i \in 1..Len(users) :
       /\ users[i].login_attempts = Failures(users[i].id)
       /\ users[i].is_locked <=> Failures(users[i].id) >= 5
       /\ users[i].is_locked <=> users[i].lock_until # <<>>

\* the fifth wrong password in a row has just locked the account
C23_Witness ==
    /\ ret.op = "authenticate_user"
    /\ ret.message = "Too many failed attempts"
    /\ \E i \in 1..Len(users) :
          /\ users[i].username = ret.username
          /\ users[i].is_locked
          /\ users[i].lock_until = <<ret.now + 30>>
          /\ Failures(users[i].id) = 5

\* C24: while an account is locked and its lock_until has not passed,
\* authenticate_user fails for every password, the right one included, opens
\* no session and leaves login_attempts, is_locked and lock_until as they were
C24_LockedRefuses ==
    [][\A i \in 1..Len(users) :
          /\ users[i].is_locked
          /\ users[i].lock_until # <<>>
          /\ clock < users[i].lock_until[1]
          /\ ret'.op = "authenticate_user"
          /\ ret'.username = users[i].username
          => /\ ~ret'.success
             /\ login_sessions' = login_sessions
             /\ users'[i].login_attempts = users[i].login_attempts
             /\ users'[i].is_locked = users[i].is_locked
             /\ users'[i].lock_until = users[i].lock_until]_vars

\* the right password was refused by a lock with a quarter of an hour to run
C24_Witness ==
    /\ ret.op = "authenticate_user"
    /\ ret.password = "Passw0rd"
    /\ ret.message = "Account locked"
    /\ ret.remaining_time = 15
    /\ login_sessions = <<>>

\* C25: a call with a wrong password on a locked account whose lock_until has
\* passed leaves the account unlocked with login_attempts = 1 (the counter
\* restarted from 0 by the unlock, then this one failure)
C25_RestartAfterExpiry ==
    [][\A i \in 1..Len(users) :
          /\ users[i].is_locked
          /\ users[i].lock_until # <<>>
          /\ clock >= users[i].lock_until[1]
          /\ ret'.op = "authenticate_user"
          /\ ret'.username = users[i].username
          /\ ~ret'.success
          => /\ ~users'[i].is_locked
             /\ users'[i].login_attempts = 1]_vars

-----------------------------------------------------------------------------
(* One-time passwords *)

OtpIdentifiers == {"john.smith@email.com"}

\* the values generate_otp may return
Otps == {"123456", "654321"}

\* OTPs stored and verified (at most MaxCalls verifications of one stored
\* OTP), five minutes passing in between
NextOtp ==
    \/ \E identifier \in OtpIdentifiers, otp \in Otps :
          store_otp(identifier, otp, "email")
    \/ \E identifier \in OtpIdentifiers, otp \in Otps :
          /\ identifier \in DOMAIN otp_log => otp_log[identifier].calls < MaxCalls
          /\ verify_otp(identifier, otp)
    \/ Elapse(5)

SpecOtp == Init /\ [][NextOtp]_vars

\* C26: verify_otp returns True only for an identifier whose last stored OTP
\* has not been verified yet, only for the code that was stored, only up to
\* its expiry (10 minutes after store_otp) and only on one of the first 3
\* calls since store_otp; a call that returns True, a call after the expiry
\* and a call made after 3 calls leave no OTP stored for the identifier
C26_OtpSingleUse ==
    [][ret'.op = "verify_otp" =>
          LET id == ret'.identifier
              known == id \in DOMAIN otp_log
          IN  /\ ret'.result =>
                    /\ known
                    /\ otp_log[id].verified = 0
                    /\ otp_log[id].otp = ret'.otp
                    /\ clock <= otp_log[id].stored_at + 10
                    /\ otp_log[id].calls < 3
              /\ \/ ret'.result
                 \/ known /\ clock > otp_log[id].stored_at + 10
                 \/ known /\ otp_log[id].calls >= 3
                 => id \notin DOMAIN otp_storage']_vars

\* the stored code was accepted on the third call, and is gone
C26_Witness ==
    /\ ret.op = "verify_otp"
    /\ ret.result
    /\ otp_log[ret.identifier].calls = 3
    /\ otp_log[ret.identifier].verified = 1
    /\ ret.identifier \notin DOMAIN otp_storage

-----------------------------------------------------------------------------
(* Sessions *)

\* A registration, logins, verifications and logouts of every token that
\* can be issued, half days passing in between
NextSessions ==
    \/ Register
    \/ AuthenticateUser("John Smith", "Passw0rd")
    \/ \E session_token \in 1..MaxSessions : verify_session(session_token)
    \/ \E session_token \in 1..MaxSessions : logout(session_token)
    \/ Elapse(12 * 60)

SpecSessions == Init /\ [][NextSessions]_vars

\* C27: verify_session finds a token valid exactly when a successful
\* authenticate_user returned it, logout has not been called on it, and the
\* 24 hours since it was issued have not passed; so a token stays valid until
\* it expires or is logged out, is invalid ever after its logout, and is not
\* touched by the logout of another token
C27_SessionValidity ==
    [][ret'.op = "verify_session" =>
          LET t == ret'.session_token
          IN  ret'.valid <=>
                 /\ t \in DOMAIN issued
                 /\ ~issued[t].logged_out
                 /\ clock <= issued[t].at + 24 * 60]_vars

\* the second token was found valid after the first was logged out
C27_Witness ==
    /\ ret.op = "verify_session"
    /\ ret.session_token = 2
    /\ ret.valid
    /\ Len(issued) = 2
    /\ issued[1].logged_out
    /\ SessionTokens(login_sessions) = {2}

-----------------------------------------------------------------------------
(* Roles and the doctor registration page *)

\* one user who registers as a doctor and one who registers as a patient or
\* as a researcher (the roles of the register form's selectbox, lower-cased)
NavUserInputs ==
    {<<"John Smith", "john.smith@email.com", "+91 98765 43201", "doctor">>,
     <<"Sarah Johnson", "sarah.johnson@email.com", "+91 98765 43202", "patient">>,
     <<"Sarah Johnson", "sarah.johnson@email.com", "+91 98765 43202", "researcher">>}

\* In either browser: the register and the login form, logout, the header's
\* buttons, the profile tab's button, and the doctor registration form
\* submitted with and without a name
NextNav ==
    \/ \E b \in Browsers, u \in NavUserInputs :
          render_register_tab(b, u[1], u[2], u[3], "Passw0rd", "Passw0rd", u[4],
                              "123456", "654321")
    \/ \E b \in Browsers, u \in NavUserInputs : render_login_tab(b, u[1], "Passw0rd")
    \/ \E b \in Browsers : logout_user(b)
    \/ \E b \in Browsers :
          \E page \in {"home", "doctor", "doctor_search", "doctor_registration"} :
             render_header(b, page)
    \/ \E b \in Browsers : render_doctor_profile(b)
    \/ \E b \in Browsers :
          \E data \in {DoctorData("Dr. John Doe", "Cardiologist", "+91 98765 43299",
                                  "doctor@example.com"),
                       DoctorData("", "Cardiologist", "+91 98765 43299",
                                  "doctor@example.com")} :
             main_doctor_registration(b, data)

SpecNav == Init /\ [][NextNav]_vars

\* C22: a doctors row is added only in a step of a browser that is logged in
\* as a user whose role is doctor, and the new row's user_id is that user's
\* id; no step of a browser that is logged in as a patient or a researcher,
\* or not logged in, adds one
C22_OnlyDoctorsRegister ==
    [][Len(doctors') > Len(doctors) =>
          /\ Len(doctors') = Len(doctors) + 1
          /\ \E b \in Browsers :
                /\ session_state[b].user_authenticated
                /\ session_state[b].user_data # <<>>
                /\ session_state[b].user_data[1].role = "doctor"
                /\ doctors'[Len(doctors')].user_id = session_state[b].user_data[1].user_id
                /\ \E i \in 1..Len(users) :
                      /\ users[i].id = session_state[b].user_data[1].user_id
                      /\ users[i].role = "doctor"]_vars

\* a doctor's form was accepted while another browser, logged in as a
\* researcher, was on the page "doctor_registration"
C22_Witness ==
    /\ ret.op = "render_doctor_registration"
    /\ ret.success
    /\ doctors[Len(doctors)].user_id = ret.user_id
    /\ \E b \in Browsers :
          /\ session_state[b].user_data # <<>>
          /\ session_state[b].user_data[1].role = "researcher"
          /\ session_state[b].current_page = "doctor_registration"

-----------------------------------------------------------------------------
(* Seeding *)

\* Two browsers' script runs construct registries on a new installation, any
\* number of times, while the patients script may run
NextSeeding ==
    \/ add_more_fake_patients
    \/ \E b \in Browsers : add_fake_doctors_count(b)
    \/ \E b \in Browsers : add_fake_doctors_insert(b)
    \/ \E b \in Browsers : add_fake_consultations_count(b)
    \/ \E b \in Browsers : add_fake_consultations_insert(b)

SpecSeeding == InitCreated /\ [][NextSeeding]_vars

\* the rows of the doctors table that are the k-th seed doctor
SeedDoctorRows(k) ==
    {i \in 1..Len(doctors) :
        doctors[i].name = fake_doctors[k].name /\ doctors[i].email = fake_doctors[k].email}

\* the rows of the consultations table that are the k-th seed consultation
SeedConsultationRows(k) ==
    {i \in 1..Len(consultations) :
        /\ consultations[i].notes = "seed"
        /\ consultations[i].consultation_type = fake_consultations[k][3]
        /\ consultations[i].consultation_date = fake_consultations[k][4]
        /\ consultations[i].consultation_time = fake_consultations[k][5]}

\* C28: seeding is idempotent: no seed doctor is in the doctors table more
\* than once, each is there exactly once when a DoctorRegistry construction
\* has ended, and no seed consultation is in the consultations table more
\* than once, however the constructions of two browsers interleave
C28_SeededOnce ==
    /\ \A k \in 1..Len(fake_doctors) : Cardinality(SeedDoctorRows(k)) <= 1
    /\ ret.op = "DoctorRegistry" =>
          \A k \in 1..Len(fake_doctors) : Cardinality(SeedDoctorRows(k)) = 1
    /\ \A k \in 1..Len(fake_consultations) : Cardinality(SeedConsultationRows(k)) <= 1

-----------------------------------------------------------------------------
(* The Confirm button of the doctor's views (SpecConfirm) *)

\* A doctor registers, logs in, opens the doctor page and registers a
\* profile, which gets the doctors id 6; patients book that doctor,
\* consultations are cancelled, and the doctor opens either view and presses
\* a Confirm button it shows
NextConfirm ==
    \/ render_register_tab("b1", "John Smith", "john.smith@email.com", "+91 98765 43201",
                           "Passw0rd", "Passw0rd", "doctor", "123456", "654321")
    \/ render_login_tab("b1", "John Smith", "Passw0rd")
    \/ render_header("b1", "doctor")
    \/ main_doctor_registration("b1", DoctorData("Dr. John Doe", "Cardiologist",
                                                 "+91 98765 43299", "doctor@example.com"))
    \/ Book({6}, {1, 2}, {"Chat Consultation"}, {<<2025, 7, 1>>}, {<<10, 0, 0>>}, {"tokA"})
    \/ UpdateStatus({"cancelled"})
    \/ \E pressed \in ConsultationIdInputs \cup {0} : render_doctor_consultations("b1", pressed)
    \/ \E pressed \in ConsultationIdInputs \cup {0} : render_doctor_dashboard("b1", pressed)

SpecConfirm == Init /\ [][NextConfirm]_vars

\* C30: in a run of either doctor's view, a Confirm button is shown for a
\* listed consultation if and only if its stored status is pending
C30_ConfirmIffPending ==
    ret.op \in {"render_doctor_consultations", "render_doctor_dashboard"}
       => \A k \in 1..Len(ret.rows) :
             (ret.rows[k].id \in ret.offered) <=> (ret.rows[k].status = "pending")

====
